---- MODULE Spec2Model ----
(***************************************************************************)
(* Worker lifecycle / offload orchestration and the PRIME reward           *)
(* attribution of rl/verl/workers/fsdp_workers.py.                         *)
(*                                                                         *)
(* One worker process is modelled.  A remotely dispatched operation runs   *)
(* to completion before the next one is accepted, so every handler is one  *)
(* action; what happens inside a handler (loads, offloads, forward and     *)
(* backward passes, optimizer steps) is recorded, in program order, in     *)
(* the event log of the call.                                              *)
(***************************************************************************)
EXTENDS Integers, Sequences, FiniteSets, TLC

\* ---------------------------------------------------------------- bounds
MaxWorld == 2   \* worker-group sizes 1..MaxWorld
MaxMicro == 3   \* configured micro_batch_size 1..MaxMicro
MaxMini  == 4   \* configured mini_batch_size 1..MaxMini
MaxBatch == 4   \* cardinality of the shard a call receives, 1..MaxBatch
MaxSched == 2   \* training calls per worker (caps the version counters)
MaxSeq   == 3   \* sequence lengths 1..MaxSeq of a scored micro-batch
MaxRows  == 1   \* samples 1..MaxRows of a scored micro-batch

VARIABLES
    cfg,      \* the worker's class, role and configuration after __init__
    pc,       \* "new" (constructed), "ready" (init_model returned), "failed"
    pl,       \* placement of parameters / gradients / optimizer state
    op,       \* the operation that ran last
    entry,    \* pl, touched, ver, acc, sched when that operation was entered
    touched,  \* whether an earlier operation already bracketed the main model
    log,      \* events of that operation, in program order
    ver,      \* version of the main model's parameters (optimizer steps taken)
    acc,      \* micro-batch gradients accumulated and not yet applied/zeroed
    sched,    \* learning-rate scheduler steps taken
    out,      \* what the operation returned
    micro_batch,  \* the micro-batch handed to _forward_micro_batch
    fwd,      \* what _forward_micro_batch made of it
    token_level_scores,  \* the concatenated scores and the prime_norm setting
    rm_scores,  \* the scores compute_rm_score puts in its output
    data,       \* the batch and sequence scores handed to _expand_to_token_level
    expanded,   \* what _expand_to_token_level made of them
    dispatched, \* the operation the controller dispatched to a worker group
    group     \* per rank of that group: where the worker is in the operation

wvars == <<cfg, pc, pl, op, entry, touched, log, ver, acc, sched, out>>
svars == <<micro_batch, fwd, token_level_scores, rm_scores, data, expanded>>
gvars == <<dispatched, group>>
vars == <<wvars, svars, gvars>>

\* ------------------------------------------------------------ configuration
Roles == {"actor", "rollout", "ref", "actor_rollout", "actor_rollout_ref"}

BaseCfg ==
    [kind |-> "arr", role |-> "actor",
     param_offload |-> FALSE, grad_offload |-> FALSE, optimizer_offload |-> FALSE,
     ref_param_offload |-> FALSE,
     world |-> 1, rank |-> 0, micro |-> 1, mini |-> 1,
     rollout_micro |-> 1, ref_micro |-> 1, conf_micro |-> 1, conf_mini |-> 1,
     update |-> "none", has_ref |-> FALSE, input_tokenizer |-> FALSE,
     granularity |-> "token", loss_type |-> "ce", grad_clip |-> TRUE]

\* (world size, rank) of a worker of the group
WorldRanks == { wr \in (1..MaxWorld) \X (0..(MaxWorld - 1)) : wr[2] < wr[1] }

is_actor(c)   == c.kind = "arr" /\ c.role \in {"actor", "actor_rollout", "actor_rollout_ref"}
is_rollout(c) == c.kind = "arr" /\ c.role \in {"rollout", "actor_rollout", "actor_rollout_ref"}
is_ref(c)     == c.kind = "arr" /\ c.role \in {"ref", "actor_rollout_ref"}

\* The batch-size settings as the caller configured them are conf_micro and
\* conf_mini (for the actor and the critic the mini-batch is configured as
\* two micro-batches); micro, mini, rollout_micro and ref_micro are the
\* settings self.config holds once __init__ has returned.

\* "normalize config" of ActorRolloutRefWorker.__init__
ARR_normalize_config(c) ==
    [c EXCEPT !.micro = IF is_actor(c) THEN c.conf_micro \div c.world ELSE c.conf_micro,
              !.mini = IF is_actor(c) THEN c.conf_mini \div c.world ELSE c.conf_mini,
              !.rollout_micro = IF is_rollout(c) THEN c.conf_micro \div c.world
                                ELSE c.conf_micro,
              !.ref_micro = IF is_ref(c) THEN c.conf_micro \div c.world ELSE c.conf_micro]

\* ActorRolloutRefWorker.__init__
ARRConfigs ==
    { ARR_normalize_config(
        [BaseCfg EXCEPT !.kind = "arr", !.role = r, !.param_offload = p,
                        !.grad_offload = g, !.optimizer_offload = o,
                        !.ref_param_offload = rp, !.world = wr[1],
                        !.rank = wr[2], !.conf_micro = mc, !.conf_mini = 2 * mc]) :
        r \in Roles, p \in BOOLEAN, g \in BOOLEAN, o \in BOOLEAN,
        rp \in BOOLEAN, wr \in WorldRanks, mc \in 1..MaxMicro }

\* CriticWorker.__init__: ppo_mini_batch_size and ppo_micro_batch_size
\* //= world_size
CriticConfigs ==
    { [BaseCfg EXCEPT !.kind = "critic", !.role = "critic", !.param_offload = p,
                      !.grad_offload = g, !.optimizer_offload = o,
                      !.world = wr[1], !.rank = wr[2],
                      !.conf_micro = mc, !.conf_mini = 2 * mc,
                      !.micro = mc \div wr[1], !.mini = (2 * mc) \div wr[1]] :
        p \in BOOLEAN, g \in BOOLEAN, o \in BOOLEAN, wr \in WorldRanks,
        mc \in 1..MaxMicro }

\* RewardModelWorker.__init__: micro_batch_size //= world_size
RMConfigs ==
    { [BaseCfg EXCEPT !.kind = "rm", !.role = "rm", !.param_offload = p, !.world = w,
                      !.conf_micro = mc, !.micro = mc \div w, !.input_tokenizer = t] :
        p \in BOOLEAN, w \in 1..MaxWorld, mc \in 1..MaxMicro, t \in BOOLEAN }

\* the values of self.config.prime_granularity
Granularities == {"token", "whole", "other"}

\* the values of self.config.prime_model.loss_type
LossTypes == {"ce", "other"}

\* PRIMERewardModelWorker.__init__: micro_batch_size //= world_size; the
\* mini_batch_size setting is left as configured.
PRIMEConfigs ==
    { [BaseCfg EXCEPT !.kind = "prime", !.role = "prime", !.param_offload = p,
                      !.grad_offload = g, !.optimizer_offload = o, !.world = w,
                      !.conf_micro = mc, !.conf_mini = mn,
                      !.micro = mc \div w, !.mini = mn, !.update = u,
                      !.has_ref = hr, !.input_tokenizer = t, !.granularity = gr,
                      !.loss_type = lt, !.grad_clip = gc] :
        p \in BOOLEAN, g \in BOOLEAN, o \in BOOLEAN, w \in 1..MaxWorld,
        mc \in 1..MaxMicro, mn \in 1..MaxMini,
        u \in {"none", "before", "after"}, hr \in BOOLEAN, t \in BOOLEAN,
        gr \in Granularities, lt \in LossTypes, gc \in BOOLEAN }

Configs == ARRConfigs \cup CriticConfigs \cup RMConfigs \cup PRIMEConfigs

\* self._is_offload_param / _is_offload_grad / _is_offload_optimizer
is_offload_param(c) ==
    IF c.kind = "arr"
    THEN IF is_actor(c) THEN c.param_offload
         ELSE IF is_ref(c) THEN c.ref_param_offload ELSE FALSE
    ELSE IF c.kind = "rm" THEN FALSE ELSE c.param_offload

is_offload_grad(c) ==
    IF c.kind = "arr" THEN is_actor(c) /\ c.grad_offload
    ELSE IF c.kind = "rm" THEN FALSE ELSE c.grad_offload

is_offload_optimizer(c) ==
    IF c.kind = "arr" THEN is_actor(c) /\ c.optimizer_offload
    ELSE IF c.kind = "rm" THEN FALSE ELSE c.optimizer_offload

\* ----------------------------------------------------------- the call state
\* A handler threads a record m through its statements:
\*   pl, log, ver, acc, sched as the variables of the same name,
\*   rows (score rows collected so far), met (metric entries appended),
\*   err ("" or the exception that ended the call).
Ev(e, on, ok, k) == [ev |-> e, on |-> on, ok |-> ok, k |-> k]

Emit(m, e) == [m EXCEPT !.log = Append(@, e)]

Raise(m, e) == [m EXCEPT !.err = e]

NoMetrics == [dpo_loss |-> 0, grad_norm |-> 0, dpo_acc_before |-> 0, dpo_acc_after |-> 0]

Enter == [pl |-> pl, log |-> <<>>, ver |-> ver, acc |-> acc, sched |-> sched,
          rows |-> <<>>, met |-> NoMetrics, err |-> ""]

Unbuilt == [param |-> "none", grad |-> "none"]
Built   == [param |-> "accel", grad |-> "accel"]

\* the call state of the first call on a worker just constructed
Fresh == [pl |-> [main |-> Unbuilt, ref |-> Unbuilt, opt |-> "none"],
          log |-> <<>>, ver |-> 0, acc |-> 0, sched |-> 0,
          rows |-> <<>>, met |-> NoMetrics, err |-> ""]

\* FSDP(module, ..., sync_module_states=True): the module states are
\* broadcast from rank 0 and the shards put on the accelerator
fsdp_wrap(m, mod) == [Emit(m, Ev("fsdp_wrap", mod, TRUE, 0)) EXCEPT !.pl[mod] = Built]

\* ------------------------------------------------ OffloadManager (fsdp_utils)
\* load: host -> accelerator, no-op when resident; offload: accelerator -> host,
\* no-op when offloaded.  ok records whether the resource actually moved.
load_fsdp_param_and_grad(m, mod, load_grad) ==
    LET was == m.pl[mod]
        m1  == Emit(m, Ev("load_param", mod, was.param = "host", 0))
        m2  == IF load_grad THEN Emit(m1, Ev("load_grad", mod, was.grad = "host", 0)) ELSE m1
    IN [m2 EXCEPT !.pl[mod] = [param |-> "accel",
                               grad  |-> IF load_grad THEN "accel" ELSE was.grad]]

offload_fsdp_param_and_grad(m, mod, offload_grad) ==
    LET was == m.pl[mod]
        m1  == Emit(m, Ev("offload_param", mod, was.param = "accel", 0))
        m2  == IF offload_grad THEN Emit(m1, Ev("offload_grad", mod, was.grad = "accel", 0)) ELSE m1
    IN [m2 EXCEPT !.pl[mod] = [param |-> "host",
                               grad  |-> IF offload_grad THEN "host" ELSE was.grad]]

offload_fsdp_grad(m, mod) ==
    [Emit(m, Ev("offload_grad", mod, m.pl[mod].grad = "accel", 0))
        EXCEPT !.pl[mod].grad = "host"]

load_fsdp_optimizer(m) ==
    [Emit(m, Ev("load_optimizer", "main", m.pl.opt = "host", 0)) EXCEPT !.pl.opt = "accel"]

offload_fsdp_optimizer(m) ==
    [Emit(m, Ev("offload_optimizer", "main", m.pl.opt = "accel", 0)) EXCEPT !.pl.opt = "host"]

\* ------------------------------------------------------------ compute steps
\* ok: the resources the step needs are resident on the accelerator.
Forward(m, mod, k) == Emit(m, Ev("forward", mod, m.pl[mod].param = "accel", k))

Backward(m, mod, k) ==
    [Emit(m, Ev("backward", mod, m.pl[mod].param = "accel" /\ m.pl[mod].grad = "accel", k))
        EXCEPT !.acc = @ + 1]

OptimizerStep(m, k) ==
    [Emit(m, Ev("opt_step", "main", m.pl.opt = "accel", k)) EXCEPT !.ver = @ + 1]

ZeroGrad(m, k) == [Emit(m, Ev("zero_grad", "main", TRUE, k)) EXCEPT !.acc = 0]

SchedulerStep(m) ==
    [Emit(m, Ev("sched_step", "main", m.pl.opt = "accel", 0)) EXCEPT !.sched = @ + 1]

Barrier(m) == Emit(m, Ev("barrier", "group", TRUE, 0))

\* a handler reads the batch-size setting `name` and uses the value
UseSetting(m, name, value) == Emit(m, Ev(name, "config", TRUE, value))

\* a handler reads the entry `name` of the meta_info of its argument
ReadMeta(m, name, value) == Emit(m, Ev(name, "meta_info", TRUE, value))

\* a handler puts the tensor `name` in the batch of its output
PutOutput(m, name) == Emit(m, Ev(name, "output", TRUE, m.ver))

\* ------------------------------------------------------------ collaborators
\* DataParallelPPOActor.update_policy / DataParallelPPOCritic.update_critic:
\* forward + backward + optimizer step over the batch.
update_policy(m) == OptimizerStep(Backward(Forward(ZeroGrad(m, 0), "main", 1), "main", 1), 1)

\* compute_log_prob / compute_values: a forward-only pass.
compute_log_prob(m, mod) == Forward(m, mod, 0)

\* rollout.generate_sequences inside the sharding manager: decodes with the
\* actor module's current parameters.
rollout_generate(m) == Emit(m, Ev("generate", "main", m.pl.main.param = "accel", m.ver))

\* mutant: every rank writes the checkpoint
gather_and_write_everyRank(m, c, hdfs) ==
    LET g  == Emit(m, Ev("gather", "main", m.pl.main.param = "accel", 0))
        w1 == Emit(g, Ev("write_local", "main", TRUE, c.rank))
    IN IF hdfs THEN Emit(w1, Ev("write_hdfs", "main", TRUE, c.rank)) ELSE w1

\* mutant: only the coordinating rank enters the full-state gather
gather_and_write_gatherOnRankZero(m, c, hdfs) ==
    LET g  == IF c.rank = 0
              THEN Emit(m, Ev("gather", "main", m.pl.main.param = "accel", 0)) ELSE m
        w1 == IF c.rank = 0 THEN Emit(g, Ev("write_local", "main", TRUE, c.rank)) ELSE g
        w2 == IF c.rank = 0 /\ hdfs THEN Emit(w1, Ev("write_hdfs", "main", TRUE, c.rank)) ELSE w1
    IN w2

\* FSDP full-state gather, then the writes of the coordinating rank.
gather_and_write(m, c, hdfs) ==
    LET g  == Emit(m, Ev("gather", "main", m.pl.main.param = "accel", 0))
        w1 == IF c.rank = 0 THEN Emit(g, Ev("write_local", "main", TRUE, c.rank)) ELSE g
        w2 == IF c.rank = 0 /\ hdfs THEN Emit(w1, Ev("write_hdfs", "main", TRUE, c.rank)) ELSE w1
    IN w2

\* ------------------------------------------------------------- bookkeeping
NoOut == [rows |-> <<>>, met |-> NoMetrics, err |-> "", n |-> 0]

\* The handler `name` ends in call state m, having received n samples.
Return(name, m, n, main) ==
    /\ pc' = IF m.err = "" THEN "ready" ELSE "failed"
    /\ pl' = m.pl
    /\ log' = m.log
    /\ ver' = m.ver
    /\ acc' = m.acc
    /\ sched' = m.sched
    /\ op' = name
    /\ entry' = [pl |-> pl, touched |-> touched, ver |-> ver, acc |-> acc, sched |-> sched]
    /\ touched' = (touched \/ (main /\ m.err = ""))
    /\ out' = [rows |-> m.rows, met |-> m.met, err |-> m.err, n |-> n]
    /\ UNCHANGED <<cfg, svars, gvars>>

NoneBuilt == [main |-> Unbuilt, ref |-> Unbuilt, opt |-> "none"]

NoMicroBatch == [seq_len |-> 0, prompt_length |-> 0, granularity |-> "token",
                 attention_mask |-> <<>>, rm_log_labels |-> <<>>, ref_log_labels |-> <<>>]

NoForward == [state |-> "idle", token_level_score |-> <<>>, q |-> <<>>]

NoScores == [scores |-> <<>>, prime_norm |-> "none"]

NoNorm == [state |-> "idle", num |-> <<>>, den |-> 1]

NoData == [prompt_length |-> 0, response_length |-> 0, attention_mask |-> <<>>,
           position_ids |-> <<>>, scores |-> <<>>]

NoExpansion == [state |-> "idle", token_level_scores |-> <<>>]

\* no score computation is being followed
ScoringIdle ==
    /\ micro_batch = NoMicroBatch /\ fwd = NoForward
    /\ token_level_scores = NoScores /\ rm_scores = NoNorm
    /\ data = NoData /\ expanded = NoExpansion

NoDispatch == [cfg |-> BaseCfg, op |-> "__init__", n |-> 0, flag |-> FALSE,
               entry |-> Fresh, calls |-> <<>>]

\* no worker group is being followed
GroupIdle == dispatched = NoDispatch /\ group = <<>>

Init ==
    /\ ScoringIdle
    /\ GroupIdle
    /\ cfg \in Configs
    /\ pc = "new"
    /\ pl = NoneBuilt
    /\ op = "__init__"
    /\ entry = [pl |-> NoneBuilt, touched |-> FALSE, ver |-> 0, acc |-> 0, sched |-> 0]
    /\ touched = FALSE
    /\ log = <<>>
    /\ ver = 0
    /\ acc = 0
    /\ sched = 0
    /\ out = NoOut

\* ------------------------------------------------- ActorRolloutRefWorker
\* mutant: init_model offloads the actor's parameters along with its gradients
ARR_init_actor_offloadsParam(m, c) ==
    LET b  == [fsdp_wrap(m, "main") EXCEPT
                        !.pl.opt = IF is_actor(c) THEN "accel" ELSE "none"]
        m1 == IF is_offload_param(c)
              THEN offload_fsdp_param_and_grad(b, "main", TRUE) ELSE b
    IN IF is_offload_optimizer(c) THEN offload_fsdp_optimizer(m1) ELSE m1

ARR_init_actor(m, c) ==
    LET b  == [fsdp_wrap(m, "main") EXCEPT
                        !.pl.opt = IF is_actor(c) THEN "accel" ELSE "none"]
        m1 == IF is_offload_param(c) THEN offload_fsdp_grad(b, "main") ELSE b
    IN IF is_offload_optimizer(c) THEN offload_fsdp_optimizer(m1) ELSE m1

ARR_init_ref(m, c) ==
    LET b == fsdp_wrap(m, "ref")
    IN IF is_offload_param(c)
       THEN offload_fsdp_param_and_grad(b, "ref", is_offload_grad(c))
       ELSE b

ARR_init_model_call(m, c) ==
    LET m1 == IF is_actor(c) \/ is_rollout(c) THEN ARR_init_actor(m, c) ELSE m
        m2 == IF is_ref(c) THEN ARR_init_ref(m1, c) ELSE m1
    IN Barrier(m2)

init_model ==
    /\ cfg.kind = "arr"
    /\ pc = "new"
    /\ Return("init_model", ARR_init_model_call(Enter, cfg), 0, FALSE)

\* mutant: the optimizer state is loaded and never offloaded again
update_actor_body_keepsOptimizer(m, c) ==
    LET m1 == IF is_offload_param(c)
              THEN load_fsdp_param_and_grad(m, "main", is_offload_grad(c)) ELSE m
        m2 == IF is_offload_optimizer(c) THEN load_fsdp_optimizer(m1) ELSE m1
        m3 == SchedulerStep(update_policy(m2))
        m4 == IF is_offload_param(c)
              THEN offload_fsdp_param_and_grad(m3, "main", is_offload_grad(c)) ELSE m3
    IN Barrier(m4)

update_actor_body(m, c) ==
    LET m1 == IF is_offload_param(c)
              THEN load_fsdp_param_and_grad(m, "main", is_offload_grad(c)) ELSE m
        m2 == IF is_offload_optimizer(c) THEN load_fsdp_optimizer(m1) ELSE m1
        m3 == SchedulerStep(update_policy(m2))
        m4 == IF is_offload_param(c)
              THEN offload_fsdp_param_and_grad(m3, "main", is_offload_grad(c)) ELSE m3
        m5 == IF is_offload_optimizer(c) THEN offload_fsdp_optimizer(m4) ELSE m4
    IN Barrier(m5)

\* mutant: the role is asserted after the load of the parameters
update_actor_call_assertsLate(m, c) ==
    IF ~is_actor(c)
    THEN Raise(IF is_offload_param(c)
               THEN load_fsdp_param_and_grad(m, "main", is_offload_grad(c)) ELSE m,
               "AssertionError")
    ELSE update_actor_body(m, c)

\* assert self._is_actor, then the body
update_actor_call(m, c) ==
    IF ~is_actor(c) THEN Raise(m, "AssertionError") ELSE update_actor_body(m, c)

update_actor ==
    /\ cfg.kind = "arr"
    /\ pc = "ready"
    /\ sched < MaxSched
    /\ Return("update_actor", update_actor_call(Enter, cfg), 0, TRUE)

\* mutant: the policy is updated between generation and the recomputation
generate_sequences_body_updatesBetween(m, c, recompute_log_prob) ==
    LET m1 == IF is_offload_param(c)
              THEN load_fsdp_param_and_grad(m, "main", is_offload_grad(c)) ELSE m
        m2 == rollout_generate(m1)
        m3 == IF is_actor(c) /\ recompute_log_prob
              THEN PutOutput(compute_log_prob(update_policy(m2), "main"), "old_log_probs")
              ELSE m2
        m4 == IF is_offload_param(c)
              THEN offload_fsdp_param_and_grad(m3, "main", is_offload_grad(c)) ELSE m3
    IN Barrier(m4)

\* mutant: the log-probs are never recomputed
generate_sequences_body_noRecompute(m, c, recompute_log_prob) ==
    LET m1 == IF is_offload_param(c)
              THEN load_fsdp_param_and_grad(m, "main", is_offload_grad(c)) ELSE m
        m2 == rollout_generate(m1)
        m4 == IF is_offload_param(c)
              THEN offload_fsdp_param_and_grad(m2, "main", is_offload_grad(c)) ELSE m2
    IN Barrier(m4)

generate_sequences_body(m, c, recompute_log_prob) ==
    LET m1 == IF is_offload_param(c)
              THEN load_fsdp_param_and_grad(m, "main", is_offload_grad(c)) ELSE m
        m2 == rollout_generate(m1)
        m3 == IF is_actor(c) /\ recompute_log_prob
              THEN PutOutput(
                     compute_log_prob(UseSetting(m2, "micro_batch_size", c.rollout_micro),
                                      "main"),
                     "old_log_probs")
              ELSE m2
        m4 == IF is_offload_param(c)
              THEN offload_fsdp_param_and_grad(m3, "main", is_offload_grad(c)) ELSE m3
    IN Barrier(m4)

\* recompute_log_prob is read from the prompts' meta_info, then
\* assert self._is_rollout, then the body
generate_sequences_call(m, c, recompute_log_prob) ==
    LET r == ReadMeta(m, "recompute_log_prob", IF recompute_log_prob THEN 1 ELSE 0)
    IN IF ~is_rollout(c) THEN Raise(r, "AssertionError")
       ELSE generate_sequences_body(r, c, recompute_log_prob)

\* what the prompts' meta_info holds under recompute_log_prob
RecomputeMeta == {"unset", "True", "False"}

\* prompts.meta_info.get('recompute_log_prob', True)
meta_recompute_log_prob(meta) == meta # "False"

generate_sequences ==
    /\ cfg.kind = "arr"
    /\ pc = "ready"
    /\ \E meta \in RecomputeMeta :
         Return("generate_sequences",
                generate_sequences_call(Enter, cfg, meta_recompute_log_prob(meta)), 0, TRUE)

compute_ref_log_prob_body(m, c) ==
    LET m1 == IF is_offload_param(c)
              THEN load_fsdp_param_and_grad(m, "ref", is_offload_grad(c)) ELSE m
        m2 == compute_log_prob(UseSetting(m1, "micro_batch_size", c.ref_micro), "ref")
        m3 == IF is_offload_param(c)
              THEN offload_fsdp_param_and_grad(m2, "ref", is_offload_grad(c)) ELSE m2
    IN Barrier(m3)

compute_ref_log_prob_call(m, c) ==
    IF ~is_ref(c) THEN Raise(m, "AssertionError") ELSE compute_ref_log_prob_body(m, c)

compute_ref_log_prob ==
    /\ cfg.kind = "arr"
    /\ pc = "ready"
    /\ Return("compute_ref_log_prob", compute_ref_log_prob_call(Enter, cfg), 0, FALSE)

\* mutant: the ranks wait for each other before the gather and the write
save_checkpoint_body_barrierFirst(m, c, hdfs) ==
    LET m1 == IF is_offload_param(c)
              THEN load_fsdp_param_and_grad(m, "main", is_offload_grad(c)) ELSE m
        m2 == gather_and_write(Barrier(m1), c, hdfs)
    IN IF is_offload_param(c)
       THEN offload_fsdp_param_and_grad(m2, "main", is_offload_grad(c)) ELSE m2

\* mutant: only the coordinating rank gathers, writes and waits
save_checkpoint_body_rankZeroOnly(m, c, hdfs) ==
    LET m1 == IF is_offload_param(c)
              THEN load_fsdp_param_and_grad(m, "main", is_offload_grad(c)) ELSE m
        m2 == IF c.rank = 0 THEN Barrier(gather_and_write(m1, c, hdfs)) ELSE m1
    IN IF is_offload_param(c)
       THEN offload_fsdp_param_and_grad(m2, "main", is_offload_grad(c)) ELSE m2

save_checkpoint_body(m, c, hdfs) ==
    LET m1 == IF is_offload_param(c)
              THEN load_fsdp_param_and_grad(m, "main", is_offload_grad(c)) ELSE m
        m2 == Barrier(gather_and_write(m1, c, hdfs))
    IN IF is_offload_param(c)
       THEN offload_fsdp_param_and_grad(m2, "main", is_offload_grad(c)) ELSE m2

save_checkpoint_call(m, c, hdfs) ==
    IF ~is_actor(c) THEN Raise(m, "AssertionError") ELSE save_checkpoint_body(m, c, hdfs)

save_checkpoint ==
    /\ cfg.kind = "arr"
    /\ pc = "ready"
    /\ \E hdfs \in BOOLEAN :
         Return("save_checkpoint", save_checkpoint_call(Enter, cfg, hdfs), 0, TRUE)

\* ------------------------------------------------------------ CriticWorker
Critic_init_model_call(m, c) ==
    LET b  == [fsdp_wrap(m, "main") EXCEPT !.pl.opt = "accel"]
        m1 == IF is_offload_param(c)
              THEN offload_fsdp_param_and_grad(b, "main", is_offload_grad(c)) ELSE b
    IN IF is_offload_optimizer(c) THEN offload_fsdp_optimizer(m1) ELSE m1

Critic_init_model ==
    /\ cfg.kind = "critic"
    /\ pc = "new"
    /\ Return("init_model", Critic_init_model_call(Enter, cfg), 0, FALSE)

\* mutant: the forward-only operation runs a training step
compute_values_body_trains(m, c) ==
    LET m1 == IF is_offload_param(c)
              THEN load_fsdp_param_and_grad(m, "main", is_offload_grad(c)) ELSE m
        m2 == update_policy(UseSetting(m1, "micro_batch_size", c.micro))
    IN IF is_offload_param(c)
       THEN offload_fsdp_param_and_grad(m2, "main", is_offload_grad(c)) ELSE m2

compute_values_body(m, c) ==
    LET m1 == IF is_offload_param(c)
              THEN load_fsdp_param_and_grad(m, "main", is_offload_grad(c)) ELSE m
        m2 == compute_log_prob(UseSetting(m1, "micro_batch_size", c.micro), "main")
    IN IF is_offload_param(c)
       THEN offload_fsdp_param_and_grad(m2, "main", is_offload_grad(c)) ELSE m2

compute_values ==
    /\ cfg.kind = "critic"
    /\ pc = "ready"
    /\ Return("compute_values", compute_values_body(Enter, cfg), 0, TRUE)

update_critic_body(m, c) ==
    LET m1 == IF is_offload_param(c)
              THEN load_fsdp_param_and_grad(m, "main", is_offload_grad(c)) ELSE m
        m2 == IF is_offload_optimizer(c) THEN load_fsdp_optimizer(m1) ELSE m1
        m3 == SchedulerStep(update_policy(m2))
        m4 == IF is_offload_param(c)
              THEN offload_fsdp_param_and_grad(m3, "main", is_offload_grad(c)) ELSE m3
    IN IF is_offload_optimizer(c) THEN offload_fsdp_optimizer(m4) ELSE m4

update_critic ==
    /\ cfg.kind = "critic"
    /\ pc = "ready"
    /\ sched < MaxSched
    /\ Return("update_critic", update_critic_body(Enter, cfg), 0, TRUE)

Critic_save_checkpoint ==
    /\ cfg.kind = "critic"
    /\ pc = "ready"
    /\ \E hdfs \in BOOLEAN :
         Return("save_checkpoint", save_checkpoint_body(Enter, cfg, hdfs), 0, TRUE)

\* ------------------------------------------------------ MicroBatchScheduler
\* mutant: only the full chunks, the remainder dropped
RECURSIVE SplitFloor(_, _)
SplitFloor(batch, k) ==
    IF Len(batch) < k THEN <<>>
    ELSE <<SubSeq(batch, 1, k)>> \o SplitFloor(SubSeq(batch, k + 1, Len(batch)), k)

\* batch.split(micro_batch_size): consecutive chunks of k samples in the
\* original order, the last one holding the remainder.
RECURSIVE Split(_, _)
Split(batch, k) ==
    IF Len(batch) = 0 THEN <<>>
    ELSE IF Len(batch) <= k THEN <<batch>>
    ELSE <<SubSeq(batch, 1, k)>> \o Split(SubSeq(batch, k + 1, Len(batch)), k)

Batch(n) == [i \in 1..n |-> i]

RECURSIVE GCD(_, _)
GCD(a, b) == IF b = 0 THEN a ELSE GCD(b, a % b)

IsPow2(d) == \E e \in 0..d : 2 ^ e = d

\* mutant: the group size is divided out twice
mini_batch_size_dividedTwice(c) == (c.mini \div c.world) \div c.world

\* mini_batch_size = self.config.mini_batch_size // world_size
mini_batch_size(c) == c.mini \div c.world

\* accumulate_steps = mini_batch_size / self.config.micro_batch_size is a
\* float, kept here as the fraction num/den.
accumulate_steps(c) == [num |-> mini_batch_size(c), den |-> c.micro]

IsIntegerRatio(a) == a.num > 0 /\ a.den > 0 /\ a.num % a.den = 0

\* mutant: batch_id % accumulate_steps == 0, the index not advanced by one
StepDueBatchId(k, a) ==
    /\ IsPow2(a.den \div GCD(a.num, a.den))
    /\ ((k - 1) * a.den) % a.num = 0

\* (batch_id + 1) % accumulate_steps == 0 in double arithmetic, k = batch_id + 1,
\* a.num > 0.  A quotient num/den that is a binary fraction is held exactly
\* and the remainder is exact; any other quotient is rounded, and the
\* remainder of an integer by it is never exactly zero.
StepDue(k, a) ==
    /\ IsPow2(a.den \div GCD(a.num, a.den))
    /\ (k * a.den) % a.num = 0

\* the update modes whose loop trains the reward model
IsTraining(u) == u \in {"after", "before"}

\* mutant: every training mode repeats the forward pass
IsDoubleForward_anyTraining(u) == u \in {"after", "before"}

\* the update modes that repeat the forward pass after the updates
IsDoubleForward(u) == u \in {"before"}

\* --------------------------------------------------- PRIMERewardModelWorker
PRIME_build_model_optimizer(m, c) ==
    LET w  == fsdp_wrap(m, "main")
        b  == [(IF c.has_ref THEN fsdp_wrap(w, "ref") ELSE w) EXCEPT
                        !.pl.opt = IF IsTraining(c.update) THEN "accel" ELSE "none"]
        m1 == IF IsTraining(c.update) /\ is_offload_optimizer(c)
              THEN offload_fsdp_optimizer(b) ELSE b
        m2 == IF is_offload_param(c)
              THEN offload_fsdp_param_and_grad(m1, "main", is_offload_grad(c)) ELSE m1
    IN IF is_offload_param(c) /\ c.has_ref
       THEN offload_fsdp_param_and_grad(m2, "ref", is_offload_grad(c)) ELSE m2

PRIME_init_model ==
    /\ cfg.kind = "prime"
    /\ pc = "new"
    /\ Return("init_model", PRIME_build_model_optimizer(Enter, cfg), 0, FALSE)

\* the score rows of a micro-batch: the sample, the version of the
\* parameters that scored it and the forward pass (its place in the log)
\* that produced it
ScoreRows(mb, v, at) == [i \in 1..Len(mb) |-> [sample |-> mb[i], ver |-> v, at |-> at]]

\* mutant: a granularity that is not token is taken for whole
PRIME_forward_micro_batch_anyGranularity(m, c, mb, k) ==
    LET f == Forward(m, "main", k)
        r == IF c.has_ref THEN Forward(f, "ref", k)
             ELSE IF c.input_tokenizer THEN Raise(f, "KeyError") ELSE f
    IN IF r.err # "" THEN r
       ELSE [r EXCEPT !.rows = @ \o ScoreRows(mb, m.ver, Len(f.log))]

\* _forward_micro_batch on micro-batch number k: the forward passes, then
\* one score row per sample for the granularities token and whole
PRIME_forward_micro_batch(m, c, mb, k) ==
    LET f == Forward(m, "main", k)
        r == IF c.has_ref THEN Forward(f, "ref", k)
             ELSE IF c.input_tokenizer THEN Raise(f, "KeyError") ELSE f
    IN IF r.err # "" THEN r
       ELSE IF c.granularity \notin {"token", "whole"}
            THEN Raise(r, "NotImplementedError")
            ELSE [r EXCEPT !.rows = @ \o ScoreRows(mb, m.ver, Len(f.log))]

\* mutant: the gradients are zeroed before the step and never clipped
PRIME_optimizer_step_zeroFirst(m, c, k) ==
    IF ~c.grad_clip THEN Raise(m, "AssertionError")
    ELSE [OptimizerStep(ZeroGrad(m, k), k) EXCEPT !.met.grad_norm = @ + 1]

\* mutant: the learning-rate scheduler is stepped with every optimizer step
PRIME_optimizer_step_stepsSched(m, c, k) ==
    IF ~c.grad_clip THEN Raise(m, "AssertionError")
    ELSE LET c1 == Emit(m, Ev("clip_grad", "main", TRUE, k))
             s  == SchedulerStep(ZeroGrad(OptimizerStep(c1, k), k))
         IN [s EXCEPT !.met.grad_norm = @ + 1]

\* self._optimizer_step() followed by zero_grad; c.grad_clip: whether
\* prime_model.optim.grad_clip is set
PRIME_optimizer_step(m, c, k) ==
    IF ~c.grad_clip THEN Raise(m, "AssertionError")
    ELSE LET c1 == Emit(m, Ev("clip_grad", "main", TRUE, k))
             s  == ZeroGrad(OptimizerStep(c1, k), k)
         IN [s EXCEPT !.met.grad_norm = @ + 1]

\* mutant: any loss_type is taken for ce
PRIME_micro_step_anyLoss(m, c, mb, k) ==
    LET f == PRIME_forward_micro_batch(m, c, mb, k)
    IN IF f.err # "" THEN f
       ELSE IF ~IsTraining(c.update) THEN f
       ELSE IF c.input_tokenizer THEN Raise(f, "KeyError")
       ELSE LET b == [Backward(f, "main", k) EXCEPT !.met.dpo_loss = @ + 1]
                a == accumulate_steps(c)
            IN IF a.num = 0 THEN Raise(b, "ZeroDivisionError")
               ELSE IF StepDue(k, a) THEN PRIME_optimizer_step(b, c, k)
               ELSE b

\* one iteration of the loop over micro_batches, k = batch_id + 1
PRIME_micro_step(m, c, mb, k) ==
    LET f == PRIME_forward_micro_batch(m, c, mb, k)
    IN IF f.err # "" THEN f
       ELSE IF ~IsTraining(c.update) THEN f
       ELSE IF c.input_tokenizer THEN Raise(f, "KeyError")
       ELSE IF c.loss_type # "ce" THEN Raise(f, "NotImplementedError")
       ELSE LET b == [Backward(f, "main", k) EXCEPT !.met.dpo_loss = @ + 1]
                a == accumulate_steps(c)
            IN IF a.num = 0 THEN Raise(b, "ZeroDivisionError")
               ELSE IF StepDue(k, a) THEN PRIME_optimizer_step(b, c, k)
               ELSE b

RECURSIVE PRIME_loop(_, _, _, _)
PRIME_loop(m, c, mbs, k) ==
    IF k > Len(mbs) \/ m.err # "" THEN m
    ELSE PRIME_loop(PRIME_micro_step(m, c, mbs[k], k), c, mbs, k + 1)

\* mutant: the second pass trains like the first
RECURSIVE PRIME_second_pass_trains(_, _, _, _)
PRIME_second_pass_trains(m, c, mbs, k) ==
    IF k > Len(mbs) \/ m.err # "" THEN m
    ELSE PRIME_second_pass_trains(PRIME_micro_step(m, c, mbs[k], k), c, mbs, k + 1)

RECURSIVE PRIME_second_pass(_, _, _, _)
PRIME_second_pass(m, c, mbs, k) ==
    IF k > Len(mbs) \/ m.err # "" THEN m
    ELSE PRIME_second_pass(PRIME_forward_micro_batch(m, c, mbs[k], k), c, mbs, k + 1)

\* mutant: the parameters are not loaded
PRIME_load_skipsParam(m, c) ==
    IF c.update # "none" /\ is_offload_optimizer(c) THEN load_fsdp_optimizer(m) ELSE m

PRIME_load(m, c) ==
    LET m1 == IF c.update # "none" /\ is_offload_optimizer(c) THEN load_fsdp_optimizer(m) ELSE m
        m2 == IF is_offload_param(c)
              THEN load_fsdp_param_and_grad(m1, "main", is_offload_grad(c)) ELSE m1
    IN IF is_offload_param(c) /\ c.has_ref
       THEN load_fsdp_param_and_grad(m2, "ref", is_offload_grad(c)) ELSE m2

\* mutant: the scheduler is stepped in every update mode
PRIME_offload_alwaysSched(m, c) ==
    LET m1 == IF c.update # "none" /\ is_offload_optimizer(c) THEN offload_fsdp_optimizer(m) ELSE m
        m2 == SchedulerStep(m1)
        m3 == IF is_offload_param(c)
              THEN offload_fsdp_param_and_grad(m2, "main", is_offload_grad(c)) ELSE m2
        m4 == IF is_offload_param(c) /\ c.has_ref
              THEN offload_fsdp_param_and_grad(m3, "ref", is_offload_grad(c)) ELSE m3
    IN Barrier(m4)

PRIME_offload(m, c) ==
    LET m1 == IF c.update # "none" /\ is_offload_optimizer(c) THEN offload_fsdp_optimizer(m) ELSE m
        m2 == IF c.update # "none" THEN SchedulerStep(m1) ELSE m1
        m3 == IF is_offload_param(c)
              THEN offload_fsdp_param_and_grad(m2, "main", is_offload_grad(c)) ELSE m2
        m4 == IF is_offload_param(c) /\ c.has_ref
              THEN offload_fsdp_param_and_grad(m3, "ref", is_offload_grad(c)) ELSE m3
    IN Barrier(m4)

\* compute_dpo_accuracy over the scores collected so far
dpo_accuracy(m, name) ==
    [Emit(m, Ev(name, "scores", TRUE, Len(m.rows))) EXCEPT !.met[name] = @ + 1]

\* mutant: in mode before the scores of the first pass are returned
PRIME_compute_rm_score_body_keepsFirstPass(m, c, n) ==
    LET l   == UseSetting(PRIME_load(m, c), "micro_batch_size", c.micro)
        mbs == Split(Batch(n), c.micro)
    IN IF c.micro = 0 THEN Raise(l, "ZeroDivisionError")
       ELSE
       LET t == PRIME_loop(UseSetting(l, "mini_batch_size", mini_batch_size(c)), c, mbs, 1)
       IN IF t.err # "" THEN t
          ELSE IF c.input_tokenizer THEN Raise(t, "KeyError")
          ELSE
          LET a == Barrier(dpo_accuracy(t, "dpo_acc_before"))
              d == IF IsDoubleForward(c.update)
                   THEN LET p == PRIME_second_pass([a EXCEPT !.rows = <<>>], c, mbs, 1)
                        IN IF p.err # "" THEN p
                           ELSE [Barrier(dpo_accuracy(p, "dpo_acc_after")) EXCEPT
                                    !.rows = a.rows]
                   ELSE a
          IN IF d.err # "" THEN d ELSE PRIME_offload(d, c)

PRIME_compute_rm_score_body(m, c, n) ==
    LET l   == UseSetting(PRIME_load(m, c), "micro_batch_size", c.micro)
        mbs == Split(Batch(n), c.micro)
    IN IF c.micro = 0 THEN Raise(l, "ZeroDivisionError")
       ELSE
       LET t == PRIME_loop(UseSetting(l, "mini_batch_size", mini_batch_size(c)), c, mbs, 1)
       IN IF t.err # "" THEN t
          ELSE IF c.input_tokenizer THEN Raise(t, "KeyError")
          ELSE
          LET a == Barrier(dpo_accuracy(t, "dpo_acc_before"))
              d == IF IsDoubleForward(c.update)
                   THEN LET p == PRIME_second_pass([a EXCEPT !.rows = <<>>], c, mbs, 1)
                        IN IF p.err # "" THEN p
                           ELSE Barrier(dpo_accuracy(p, "dpo_acc_after"))
                   ELSE a
          IN IF d.err # "" THEN d ELSE PRIME_offload(d, c)

PRIME_compute_rm_score ==
    /\ cfg.kind = "prime"
    /\ pc = "ready"
    /\ sched < MaxSched
    /\ \E n \in 1..MaxBatch :
         Return("compute_rm_score", PRIME_compute_rm_score_body(Enter, cfg, n), n, TRUE)

\* -------------------------------------------------------- RewardModelWorker
\* FSDP wraps the module with CPUOffload(offload_params=param_offload): the
\* runtime itself keeps the shards on host and brings them in for a pass.
RM_build_model(m, c) ==
    [fsdp_wrap(m, "main") EXCEPT
        !.pl.main = [param |-> IF c.param_offload THEN "host" ELSE "accel",
                     grad  |-> "none"]]

RM_init_model ==
    /\ cfg.kind = "rm"
    /\ pc = "new"
    /\ Return("init_model", RM_build_model(Enter, cfg), 0, FALSE)

RM_forward_micro_batch(m, mb, k) ==
    [Emit(m, Ev("forward", "main", TRUE, k)) EXCEPT
        !.rows = @ \o ScoreRows(mb, m.ver, Len(m.log) + 1)]

RECURSIVE RM_loop(_, _, _)
RM_loop(m, mbs, k) ==
    IF k > Len(mbs) THEN m
    ELSE RM_loop(RM_forward_micro_batch(m, mbs[k], k), mbs, k + 1)

RM_compute_rm_score_body(m, c, n) ==
    IF ~c.input_tokenizer THEN Raise(m, "UnboundLocalError")
    ELSE LET u == UseSetting(m, "micro_batch_size", c.micro)
         IN IF c.micro = 0 THEN Raise(u, "RuntimeError")
            ELSE RM_loop(u, Split(Batch(n), c.micro), 1)

RM_compute_rm_score ==
    /\ cfg.kind = "rm"
    /\ pc = "ready"
    /\ \E n \in 1..MaxBatch :
         Return("compute_rm_score", RM_compute_rm_score_body(Enter, cfg, n), n, TRUE)

\* ------------------------------------------------------------ specification
Next ==
    \/ init_model
    \/ update_actor
    \/ generate_sequences
    \/ compute_ref_log_prob
    \/ save_checkpoint
    \/ Critic_init_model
    \/ compute_values
    \/ update_critic
    \/ Critic_save_checkpoint
    \/ RM_init_model
    \/ RM_compute_rm_score
    \/ PRIME_init_model
    \/ PRIME_compute_rm_score

Spec == Init /\ [][Next]_vars

\* =================================== _forward_micro_batch: score assignment
\* log-probability values of a token
LogProbs == {0, 1}

RECURSIVE SumSeq(_)
SumSeq(s) == IF Len(s) = 0 THEN 0 ELSE Head(s) + SumSeq(Tail(s))

\* s[-n:] of a Python sequence (s[-0:] is s[0:], the whole sequence)
NegSlice(s, n) ==
    IF n <= 0 \/ n >= Len(s) THEN s ELSE SubSeq(s, Len(s) - n + 1, Len(s))

\* s[a:b] of a Python sequence, 0 <= a, 0 <= b
PySlice(s, a, b) ==
    LET hi == IF b > Len(s) THEN Len(s) ELSE b
    IN IF a >= hi THEN <<>> ELSE SubSeq(s, a + 1, hi)

\* mutant: a negative index is out of range
PyIndex_noNegative(w, i) == IF i >= 0 /\ i < w THEN i + 1 ELSE 0

\* the position (from 1) that Python index i names in a sequence of width w;
\* 0 when i is out of range
PyIndex(w, i) ==
    IF i >= 0 THEN (IF i < w THEN i + 1 ELSE 0)
    ELSE (IF i + w >= 0 THEN i + w + 1 ELSE 0)

Min(a, b) == IF a < b THEN a ELSE b

\* num_actions = input_ids.shape[-1] - prompt_length
num_actions(b) == b.seq_len - b.prompt_length

\* max_positions = attention_mask[:, prompt_length:].sum(-1)
max_positions(b, i) ==
    SumSeq(PySlice(b.attention_mask[i], b.prompt_length, b.seq_len))

\* mutant: the reference log-probabilities are not subtracted
q_row_noRef(b, i) == NegSlice(b.rm_log_labels[i], num_actions(b))

\* q = rm_log_labels[:, -num_actions:] - ref_log_labels[:, -num_actions:]
q_row(b, i) ==
    LET r == NegSlice(b.rm_log_labels[i], num_actions(b))
        f == NegSlice(b.ref_log_labels[i], num_actions(b))
    IN [t \in 1..Len(r) |-> r[t] - f[t]]

\* mutant: the unit of granularity whole ends one position late
step_ends_late(b, i) ==
    IF b.granularity = "token"
    THEN [j \in 1..max_positions(b, i) |-> j - 1]
    ELSE <<max_positions(b, i)>>

\* mutant: granularity token gets the single unit of granularity whole
step_ends_oneUnit(b, i) == <<max_positions(b, i) - 1>>

\* step_ends of sample i (0-based positions)
step_ends(b, i) ==
    IF b.granularity = "token"
    THEN [j \in 1..max_positions(b, i) |-> j - 1]
    ELSE <<max_positions(b, i) - 1>>

\* width of token_level_score: zeros_like(input_ids[:, -num_actions:])
score_width(b) == Len(NegSlice([t \in 1..b.seq_len |-> 0], num_actions(b)))

\* mutant: every unit starts at position 0
step_range_fromZero(b, se, j) ==
    [lo |-> 0, hi |-> Min(num_actions(b) - 1, se[j])]

\* step_range of unit j (from 1) of step_end
step_range(b, se, j) ==
    [lo |-> IF j > 1 THEN Min(se[j - 1] + 1, num_actions(b) - 1) ELSE 0,
     hi |-> Min(num_actions(b) - 1, se[j])]

\* the loop over the units of one sample: row with units j.. written
RECURSIVE assign_units(_, _, _, _, _)
assign_units(b, row, qr, se, j) ==
    IF j > Len(se) THEN row
    ELSE LET r  == step_range(b, se, j)
             at == PyIndex(Len(row), r.hi)
         IN assign_units(b, [row EXCEPT ![at] = SumSeq(PySlice(qr, r.lo, r.hi + 1))],
                         qr, se, j + 1)

\* every write token_level_score[i, step_range[1]] is inside the row
writes_in_range(b, i) ==
    \A j \in 1..Len(step_ends(b, i)) :
        PyIndex(score_width(b), step_range(b, step_ends(b, i), j).hi) # 0

score_row(b, i) ==
    assign_units(b, [t \in 1..score_width(b) |-> 0], q_row(b, i), step_ends(b, i), 1)

forward_micro_batch(b) ==
    IF b.granularity \notin {"token", "whole"}
    THEN [state |-> "NotImplementedError", token_level_score |-> <<>>, q |-> <<>>]
    ELSE LET rows == [i \in 1..Len(b.attention_mask) |-> score_row(b, i)]
         IN IF \E i \in 1..Len(rows) : ~writes_in_range(b, i)
            THEN [state |-> "IndexError", token_level_score |-> <<>>, q |-> <<>>]
            ELSE [state |-> "returned", token_level_score |-> rows,
                  q |-> [i \in 1..Len(b.attention_mask) |-> q_row(b, i)]]

\* attention mask of a sample: prompt tokens, then v valid response tokens,
\* then padding
MaskRow(len, p, v) == [t \in 1..len |-> IF t <= p + v THEN 1 ELSE 0]

\* the micro-batches of n samples, sequence length len and prompt length p
MicroBatches(n, len, p) ==
    { [seq_len |-> len, prompt_length |-> p, granularity |-> g,
       attention_mask |-> [i \in 1..n |-> MaskRow(len, p, v[i])],
       rm_log_labels |-> rm, ref_log_labels |-> rf] :
        g \in Granularities,
        v \in [1..n -> 0..(len - p)],
        rm \in [1..n -> [1..(len - 1) -> LogProbs]],
        rf \in [1..n -> [1..(len - 1) -> LogProbs]] }

WorkerIdle ==
    /\ cfg = BaseCfg /\ pc = "new" /\ pl = NoneBuilt /\ op = "__init__"
    /\ entry = [pl |-> NoneBuilt, touched |-> FALSE, ver |-> 0, acc |-> 0, sched |-> 0]
    /\ touched = FALSE /\ log = <<>> /\ ver = 0 /\ acc = 0 /\ sched = 0 /\ out = NoOut

InitScore ==
    /\ WorkerIdle
    /\ \E n \in 1..MaxRows, len \in 1..MaxSeq :
         \E p \in 1..len : micro_batch \in MicroBatches(n, len, p)
    /\ fwd = NoForward
    /\ token_level_scores = NoScores /\ rm_scores = NoNorm
    /\ data = NoData /\ expanded = NoExpansion
    /\ GroupIdle

ForwardMicroBatch ==
    /\ fwd.state = "idle"
    /\ fwd' = forward_micro_batch(micro_batch)
    /\ UNCHANGED <<wvars, micro_batch, token_level_scores, rm_scores, data, expanded, gvars>>

NextScore == ForwardMicroBatch

SpecScore == InitScore /\ [][NextScore]_vars

\* the batch of the end-to-end scenario: prompt length 3, response length 4,
\* q in hundredths
ExampleQ == << <<10, 20, -5, 30>>, <<0, 0, 0, 0>> >>

ConstRow(len, x) == [t \in 1..len |-> x]

ExampleBatches ==
    { [seq_len |-> 3 + 4, prompt_length |-> 3, granularity |-> g,
       attention_mask |-> [i \in 1..2 |-> MaskRow(3 + 4, 3, v[i])],
       rm_log_labels |-> [i \in 1..2 |->
                            ConstRow(2, pre[i] + rf[i]) \o
                            [t \in 1..4 |-> ExampleQ[i][t] + rf[i]]],
       ref_log_labels |-> [i \in 1..2 |-> ConstRow(2 + 4, rf[i])]] :
        g \in Granularities,
        v \in [1..2 -> 0..4],
        pre \in [1..2 -> LogProbs],
        rf \in [1..2 -> LogProbs] }

InitExample ==
    /\ WorkerIdle
    /\ micro_batch \in ExampleBatches
    /\ fwd = NoForward
    /\ token_level_scores = NoScores /\ rm_scores = NoNorm
    /\ data = NoData /\ expanded = NoExpansion
    /\ GroupIdle

SpecExample == InitExample /\ [][NextScore]_vars

\* ======================================== compute_rm_score: batch_norm
\* Scores are held in units of the epsilon of the denominator, 1e-6: the
\* integer s stands for s * 1e-6, and EpsInv of them make 1.
EpsInv == 1000000

Abs(x) == IF x < 0 THEN 0 - x ELSE x

\* torch.cumsum(row.flip(), -1).flip(): entry t is the sum of row[t..]
reverse_cumsum(row) == [t \in 1..Len(row) |-> SumSeq(SubSeq(row, t, Len(row)))]

\* matrix.abs().max()
MaxAbs(matrix) ==
    LET S == { Abs(matrix[i][t]) : i \in 1..Len(matrix), t \in 1..Len(matrix[1]) }
    IN CHOOSE x \in S : \A y \in S : y <= x

\* mutant: the epsilon is not added
norm_denominator_noEps(scores) ==
    MaxAbs([i \in 1..Len(scores) |-> reverse_cumsum(scores[i])])

\* reverse_cumsum.abs().max() + 1e-6
norm_denominator(scores) ==
    MaxAbs([i \in 1..Len(scores) |-> reverse_cumsum(scores[i])]) + 1

\* the scores of the output, as the fraction num[i][t] / den
batch_norm(t) ==
    IF t.prime_norm = "batch_norm"
    THEN [state |-> "returned", num |-> t.scores, den |-> norm_denominator(t.scores)]
    ELSE [state |-> "returned", num |-> t.scores, den |-> EpsInv]

\* score matrices with entries of the size of the epsilon and of the size of 1
ScoreMatrices(n, w) ==
    { [i \in 1..n |-> [t \in 1..w |-> u * b[i][t]]] :
        u \in {1, EpsInv}, b \in [1..n -> [1..w -> {-1, 0, 1}]] }

InitNorm ==
    /\ WorkerIdle
    /\ micro_batch = NoMicroBatch /\ fwd = NoForward
    /\ \E n \in 1..(MaxRows + 1), w \in 1..(MaxSeq - 1) :
         \E sc \in ScoreMatrices(n, w), pn \in {"batch_norm", "none"} :
            token_level_scores = [scores |-> sc, prime_norm |-> pn]
    /\ rm_scores = NoNorm
    /\ data = NoData /\ expanded = NoExpansion
    /\ GroupIdle

BatchNorm ==
    /\ rm_scores.state = "idle"
    /\ rm_scores' = batch_norm(token_level_scores)
    /\ UNCHANGED <<wvars, micro_batch, fwd, token_level_scores, data, expanded, gvars>>

NextNorm == BatchNorm

SpecNorm == InitNorm /\ [][NextNorm]_vars

\* ============================ RewardModelWorker._expand_to_token_level
\* values of a sequence-level score
SeqScores == {-1, 0, 1}

\* attention mask of a sequence: a left-padded prompt of p columns, pv of
\* them valid, then a right-padded response of r columns, rv of them valid
SeqMask(p, pv, r, rv) ==
    [t \in 1..(p + r) |-> IF (p - pv < t) /\ (t <= p + rv) THEN 1 ELSE 0]

\* compute_position_id_with_mask: clip(cumsum(mask) - 1, min=0)
compute_position_id_with_mask(mask) ==
    [t \in 1..Len(mask) |->
        LET c == SumSeq(SubSeq(mask, 1, t)) - 1 IN IF c < 0 THEN 0 ELSE c]

\* torch.argmax over a row: the 0-based place of the first maximal value
argmax(row) ==
    (CHOOSE t \in 1..Len(row) :
        /\ \A u \in 1..Len(row) : row[u] <= row[t]
        /\ \A u \in 1..(t - 1) : row[u] < row[t]) - 1

\* mutant: the place of the first valid token
eos_mask_idx_firstValid(d, i) == argmax(d.attention_mask[i])

\* eos_mask_idx = torch.argmax(position_ids * attention_mask, dim=-1)
eos_mask_idx(d, i) ==
    argmax([t \in 1..Len(d.attention_mask[i]) |->
                d.position_ids[i][t] * d.attention_mask[i][t]])

\* zeros_like(attention_mask) with the score at eos_mask_idx, then the
\* last response_length columns
expand_to_token_level(d) ==
    [state |-> "returned",
     token_level_scores |->
        [i \in 1..Len(d.attention_mask) |->
            NegSlice([t \in 1..Len(d.attention_mask[i]) |->
                         IF t = eos_mask_idx(d, i) + 1 THEN d.scores[i] ELSE 0],
                     d.response_length)]]

\* batches of n sequences with p prompt and r response columns
Batches(n, p, r) ==
    { [prompt_length |-> p, response_length |-> r,
       attention_mask |-> [i \in 1..n |-> SeqMask(p, v[i][1], r, v[i][2])],
       position_ids |->
           [i \in 1..n |-> compute_position_id_with_mask(SeqMask(p, v[i][1], r, v[i][2]))],
       scores |-> sc] :
        v \in [1..n -> (1..p) \X (0..r)], sc \in [1..n -> SeqScores] }

InitExpand ==
    /\ WorkerIdle
    /\ micro_batch = NoMicroBatch /\ fwd = NoForward
    /\ token_level_scores = NoScores /\ rm_scores = NoNorm
    /\ \E n \in 1..MaxRows, p \in 1..MaxSeq, r \in 1..MaxSeq : data \in Batches(n, p, r)
    /\ expanded = NoExpansion
    /\ GroupIdle

ExpandToTokenLevel ==
    /\ expanded.state = "idle"
    /\ expanded' = expand_to_token_level(data)
    /\ UNCHANGED <<wvars, micro_batch, fwd, token_level_scores, rm_scores, data, gvars>>

NextExpand == ExpandToTokenLevel

SpecExpand == InitExpand /\ [][NextExpand]_vars

\* ===================================== a worker group running one operation
\* The controller dispatches one operation to every rank of a group; each
\* rank runs the same handler on its own shard.  A rank stops at each
\* collective of the handler until every rank of the group is there.

\* the operations registered on each worker class
Operations(kind) ==
    CASE kind = "arr"    -> {"init_model", "update_actor", "generate_sequences",
                             "compute_ref_log_prob", "save_checkpoint"}
      [] kind = "critic" -> {"init_model", "compute_values", "update_critic",
                             "save_checkpoint"}
      [] OTHER           -> {"init_model", "compute_rm_score"}

\* the handler of operation `name` of the class of c, entered in call state m
Handle(c, name, m, n, flag) ==
    CASE c.kind = "arr" /\ name = "init_model"           -> ARR_init_model_call(m, c)
      [] c.kind = "arr" /\ name = "update_actor"         -> update_actor_call(m, c)
      [] c.kind = "arr" /\ name = "generate_sequences"   -> generate_sequences_call(m, c, flag)
      [] c.kind = "arr" /\ name = "compute_ref_log_prob" -> compute_ref_log_prob_call(m, c)
      [] c.kind = "arr" /\ name = "save_checkpoint"      -> save_checkpoint_call(m, c, flag)
      [] c.kind = "critic" /\ name = "init_model"        -> Critic_init_model_call(m, c)
      [] c.kind = "critic" /\ name = "compute_values"    -> compute_values_body(m, c)
      [] c.kind = "critic" /\ name = "update_critic"     -> update_critic_body(m, c)
      [] c.kind = "critic" /\ name = "save_checkpoint"   -> save_checkpoint_body(m, c, flag)
      [] c.kind = "rm" /\ name = "init_model"            -> RM_build_model(m, c)
      [] c.kind = "rm" /\ name = "compute_rm_score"      -> RM_compute_rm_score_body(m, c, n)
      [] c.kind = "prime" /\ name = "init_model"         -> PRIME_build_model_optimizer(m, c)
      [] c.kind = "prime" /\ name = "compute_rm_score"   -> PRIME_compute_rm_score_body(m, c, n)

\* init_model is the first call on a worker; any other operation is run
\* on a worker whose init_model has returned
EntryState(c, name) ==
    IF name = "init_model" THEN Fresh
    ELSE [Handle(c, "init_model", Fresh, 0, FALSE) EXCEPT !.log = <<>>]

\* the steps of a handler at which the ranks of the group meet:
\* torch.distributed.barrier(), the construction of an FSDP module with
\* sync_module_states, and the passes, gradient-norm reduction, generation
\* and state gather of a sharded module
Collectives == {"barrier", "fsdp_wrap", "forward", "backward", "clip_grad",
                "generate", "gather"}

IsCollective(e) == e.ev \in Collectives

\* the call of rank r: its steps in program order and how it ends
CallOf(d, r) ==
    LET m == Handle([d.cfg EXCEPT !.rank = r], d.op, d.entry, d.n, d.flag)
    IN [log |-> m.log, err |-> m.err]

\* one setting of the offload flags per placement, the coordinating rank's
\* configuration standing for the group's
GroupConfigs ==
    { c \in Configs : /\ c.rank = 0
                      /\ c.grad_offload = c.param_offload
                      /\ c.optimizer_offload = c.param_offload }

TakesSamples(name) == name = "compute_rm_score"
TakesFlag(name) == name \in {"generate_sequences", "save_checkpoint"}

\* an operation of the group's class with its arguments: the samples of a
\* rank's shard, the recompute_log_prob / hdfs switch
Dispatches ==
    { d \in [cfg : GroupConfigs,
             op : Operations("arr") \cup Operations("critic") \cup Operations("rm"),
             n : 0..MaxBatch, flag : BOOLEAN] :
        /\ d.op \in Operations(d.cfg.kind)
        /\ (d.n > 0) = TakesSamples(d.op)
        /\ d.flag => TakesFlag(d.op) }

\* what the controller sends to the group: the operation and its
\* arguments, every rank being in the state its init_model left (entry);
\* calls: what the handler does with them on each rank
Dispatch(d) ==
    LET e == [cfg |-> d.cfg, op |-> d.op, n |-> d.n, flag |-> d.flag,
              entry |-> EntryState(d.cfg, d.op)]
    IN [cfg |-> e.cfg, op |-> e.op, n |-> e.n, flag |-> e.flag, entry |-> e.entry,
        calls |-> [r \in 0..(d.cfg.world - 1) |-> CallOf(e, r)]]

InitGroup ==
    /\ WorkerIdle
    /\ ScoringIdle
    /\ \E d \in Dispatches : dispatched = Dispatch(d)
    /\ group = [r \in 0..(dispatched.cfg.world - 1) |->
                  [st |-> "idle", at |-> 0, pos |-> 0, log |-> <<>>, err |-> ""]]

\* the place in l of the first collective after place p, 0 if there is none
RECURSIVE NextCollective(_, _)
NextCollective(l, p) ==
    IF p >= Len(l) THEN 0
    ELSE IF IsCollective(l[p + 1]) THEN p + 1
    ELSE NextCollective(l, p + 1)

\* a rank runs until it has to wait for the group, or to the end of the
\* call; pos: the steps of log it has done, at: the collectives among them
Settle(w) ==
    LET n == NextCollective(w.log, w.pos)
    IN IF n # 0 THEN [w EXCEPT !.st = "blocked", !.pos = n - 1]
       ELSE [w EXCEPT !.st = IF w.err = "" THEN "returned" ELSE "raised",
                      !.pos = Len(w.log)]

\* rank r receives the call, enters the handler and runs to its first
\* collective
Call(r) ==
    /\ group[r].st = "idle"
    /\ LET p == dispatched.calls[r]
       IN group' = [group EXCEPT ![r] = Settle([@ EXCEPT !.log = p.log, !.err = p.err])]
    /\ UNCHANGED <<wvars, svars, dispatched>>

\* every rank of the group waits at the same collective: it completes and
\* releases the ranks
Rendezvous ==
    /\ group # <<>>
    /\ \A r \in DOMAIN group :
          /\ group[r].st = "blocked"
          /\ group[r].log[group[r].pos + 1].ev = group[0].log[group[0].pos + 1].ev
    /\ group' = [r \in DOMAIN group |->
                   [group[r] EXCEPT !.st = "running", !.pos = @ + 1, !.at = @ + 1]]
    /\ UNCHANGED <<wvars, svars, dispatched>>

\* a released rank runs on, at its own pace
Run(r) ==
    /\ group[r].st = "running"
    /\ group' = [group EXCEPT ![r] = Settle(@)]
    /\ UNCHANGED <<wvars, svars, dispatched>>

NextGroup ==
    \/ \E r \in DOMAIN group : Call(r)
    \/ Rendezvous
    \/ \E r \in DOMAIN group : Run(r)

SpecGroup == InitGroup /\ [][NextGroup]_vars

\* the dispatches of save_checkpoint (actor, critic; the batch sizes play
\* no part in it) and of the PRIME compute_rm_score of a worker with a
\* reference module, the ce loss and grad_clip set, in every update mode,
\* with every granularity, with and without chat template switching
LiveDispatches ==
    { d \in Dispatches :
        \/ d.op = "save_checkpoint" /\ d.cfg.conf_micro = 1
        \/ /\ d.op = "compute_rm_score" /\ d.cfg.kind = "prime"
           /\ d.cfg.has_ref /\ d.cfg.loss_type = "ce" /\ d.cfg.grad_clip }

InitGroupLive ==
    /\ WorkerIdle
    /\ ScoringIdle
    /\ \E d \in LiveDispatches : dispatched = Dispatch(d)
    /\ group = [r \in 0..(dispatched.cfg.world - 1) |->
                  [st |-> "idle", at |-> 0, pos |-> 0, log |-> <<>>, err |-> ""]]

\* every rank is a process of its own that runs whenever it can, and a
\* collective completes once every rank has entered it
SpecGroupLive == InitGroupLive /\ [][NextGroup]_vars /\ WF_vars(NextGroup)

\* ================================================================= claims
Returned(name) == pc = "ready" /\ op = name

Dispatched == op \notin {"__init__", "init_model"}

Events(kinds) == { i \in 1..Len(log) : log[i].ev \in kinds }

NumMicro == Len(Split(Batch(out.n), cfg.micro))

\* C1 (as claimed): every dispatched operation that returns leaves the
\* parameters, gradients and optimizer state of every model where they were
\* when it was entered, the first call after init_model included.
C1_PlacementRestored ==
    (pc = "ready" /\ Dispatched) => pl = entry.pl

\* The call that is the exception: the first operation on the actor model of
\* a worker with param_offload set finds the parameters on the accelerator,
\* where init_model left them, and returns with them on host.
FirstActorCall ==
    /\ is_actor(cfg) /\ cfg.param_offload
    /\ ~entry.touched
    /\ op \in {"update_actor", "generate_sequences", "save_checkpoint"}
    /\ entry.pl.main.param = "accel"
    /\ pl.main.param = "host"

\* C1 (amended): every dispatched operation that returns leaves gradients,
\* optimizer state and the reference model's parameters where they were at
\* entry, and the main model's parameters too, except in the first operation
\* on the actor model of a worker with param_offload set.
C1_PlacementRestoredAfterFirst ==
    (pc = "ready" /\ Dispatched) =>
        /\ pl.ref = entry.pl.ref
        /\ pl.opt = entry.pl.opt
        /\ pl.main.grad = entry.pl.main.grad
        /\ pl.main.param = entry.pl.main.param \/ FirstActorCall

\* a later update_actor really loaded parameters and optimizer state and put
\* them back
C1_Witness ==
    /\ Returned("update_actor") /\ entry.touched
    /\ \E i \in Events({"load_param"}) : log[i].ok
    /\ \E i \in Events({"load_optimizer"}) : log[i].ok
    /\ pl = entry.pl

\* C2 (as claimed): every forward pass, backward pass and optimizer step of
\* every operation runs with the resources it needs on the accelerator.
C2_ComputeOnResident ==
    \A i \in Events({"forward", "generate", "backward", "opt_step"}) : log[i].ok

\* the module whose parameters `mod` names is offloaded at init_model iff
\* the worker's param-offload setting says so
ParamOffloadConfigured(c) ==
    IF c.kind = "rm" THEN c.param_offload ELSE is_offload_param(c)

OptimizerOffloadConfigured(c) ==
    IF c.kind = "arr" THEN is_actor(c) /\ c.optimizer_offload ELSE c.optimizer_offload

\* C3 (as claimed): when init_model returns, the parameters of every model
\* of the worker are on host iff param_offload is configured, and the
\* optimizer state, when there is one, is on host iff optimizer_offload is.
C3_InitPlacementPerConfig ==
    Returned("init_model") =>
        /\ \A mod \in {"main", "ref"} :
              pl[mod].param # "none" =>
                  (pl[mod].param = "host" <=> ParamOffloadConfigured(cfg))
        /\ pl.opt # "none" => (pl.opt = "host" <=> OptimizerOffloadConfigured(cfg))

\* C3 (amended): when init_model returns, the parameters of the critic, of
\* the reward models and of the reference policy are on host iff the
\* worker's param-offload setting is on; the actor/rollout module's
\* parameters are on the accelerator whatever the setting (only its
\* gradients are offloaded when it is on); the optimizer state, when there
\* is one, is on host iff optimizer_offload is configured.
C3_InitPlacementExceptActor ==
    Returned("init_model") =>
        /\ pl.main.param # "none" =>
              IF cfg.kind = "arr"
              THEN /\ pl.main.param = "accel"
                   /\ pl.main.grad = "host" <=> ParamOffloadConfigured(cfg)
              ELSE pl.main.param = "host" <=> ParamOffloadConfigured(cfg)
        /\ pl.ref.param # "none" =>
              (pl.ref.param = "host" <=> ParamOffloadConfigured(cfg))
        /\ pl.opt # "none" => (pl.opt = "host" <=> OptimizerOffloadConfigured(cfg))

\* init_model returned on a hybrid worker with param_offload and
\* optimizer_offload set
C3_Witness ==
    /\ Returned("init_model")
    /\ cfg.role = "actor_rollout_ref" /\ cfg.param_offload /\ cfg.optimizer_offload
    /\ pl.main.param = "accel" /\ pl.ref.param = "host" /\ pl.opt = "host"

\* C4 (as claimed): a training call whose accumulation ratio
\* mini_batch_size / micro_batch_size is not a positive integer ends in an
\* error, with no forward pass run and no gradient accumulated.
C4_NonIntegerRatioRejected ==
    (/\ cfg.kind = "prime" /\ op = "compute_rm_score"
     /\ IsTraining(cfg.update)
     /\ ~IsIntegerRatio(accumulate_steps(cfg)))
    => /\ pc = "failed"
       /\ Events({"forward", "backward"}) = {}
       /\ acc = entry.acc

\* C5: in a training call with an integer ratio A, an optimizer step follows
\* the k-th micro-batch iff A divides k (it comes after the backward pass of
\* micro-batch k and before that of k + 1), and every optimizer step is
\* directly followed by zeroing the gradients.
C5_StepEveryAccumulationWindow ==
    (/\ cfg.kind = "prime" /\ Returned("compute_rm_score")
     /\ IsTraining(cfg.update)
     /\ IsIntegerRatio(accumulate_steps(cfg)))
    => LET A == accumulate_steps(cfg).num \div accumulate_steps(cfg).den
       IN /\ \A k \in 1..NumMicro :
                Cardinality({ i \in Events({"opt_step"}) : log[i].k = k })
                    = IF k % A = 0 THEN 1 ELSE 0
          /\ \A i \in Events({"opt_step"}) :
                /\ i < Len(log) /\ log[i + 1].ev = "zero_grad"
                /\ \A j \in Events({"backward"}) : j < i <=> log[j].k <= log[i].k

\* a call with A = 2 over at least three micro-batches has returned
C5_Witness ==
    /\ cfg.kind = "prime" /\ Returned("compute_rm_score")
    /\ IsTraining(cfg.update)
    /\ accumulate_steps(cfg) = [num |-> 2, den |-> 1]
    /\ NumMicro >= 3
    /\ out.met.grad_norm >= 1

\* C6: with update mode none a compute_rm_score call changes no parameter
\* and runs no backward pass, optimizer step, optimizer load or offload, or
\* scheduler step.
C6_NoneModeNeverTrains ==
    (cfg.kind = "prime" /\ cfg.update = "none") =>
        /\ ver = 0 /\ sched = 0 /\ acc = 0
        /\ op = "compute_rm_score" => ver = entry.ver
        /\ Events({"backward", "opt_step", "zero_grad", "clip_grad", "load_optimizer",
                   "offload_optimizer", "sched_step"}) = {}

\* a second scoring call in mode none has returned on a worker configured
\* with optimizer_offload
C6_Witness ==
    /\ cfg.kind = "prime" /\ cfg.update = "none" /\ cfg.optimizer_offload
    /\ Returned("compute_rm_score") /\ entry.touched
    /\ Cardinality(Events({"forward"})) >= 2

Samples == 1..Len(micro_batch.attention_mask)

NonZero(row) == { t \in 1..Len(row) : row[t] # 0 }

ScoredAs(g) == fwd.state = "returned" /\ micro_batch.granularity = g

\* C7 (as claimed): with granularity whole the score row of every sample
\* has exactly one nonzero entry, at the last valid response position, and
\* it is the sum of q over the valid response positions.
C7_WholeExactlyOneNonzero ==
    ScoredAs("whole") =>
        \A i \in Samples :
            LET v == max_positions(micro_batch, i)
            IN /\ NonZero(fwd.token_level_score[i]) = {v}
               /\ fwd.token_level_score[i][v] = SumSeq(SubSeq(fwd.q[i], 1, v))

\* C7 (amended): with granularity whole, for every sample with at least one
\* valid response token every entry of the score row other than the one at
\* the last valid response position is zero and that entry is the sum of q
\* over the valid response positions (so the row has exactly one nonzero
\* entry iff that sum is not zero); the row of a sample with no valid
\* response token is all zero.
C7_WholeSumAtLastValid ==
    ScoredAs("whole") =>
        \A i \in Samples :
            LET v   == max_positions(micro_batch, i)
                row == fwd.token_level_score[i]
            IN IF v >= 1
               THEN /\ NonZero(row) \subseteq {v}
                    /\ row[v] = SumSeq(SubSeq(fwd.q[i], 1, v))
               ELSE NonZero(row) = {}

\* a sample with two valid tokens, the first with nonzero q, scored nonzero
C7_Witness ==
    /\ ScoredAs("whole")
    /\ \E i \in Samples :
          /\ max_positions(micro_batch, i) = 2
          /\ fwd.q[i][1] # 0
          /\ NonZero(fwd.token_level_score[i]) = {2}

\* C8 (as claimed): with granularity token the score row of every sample
\* sums to the sum of q over all num_actions response positions.
C8_TokenSumOverResponse ==
    ScoredAs("token") =>
        \A i \in Samples : SumSeq(fwd.token_level_score[i]) = SumSeq(fwd.q[i])

\* C8 (amended): with granularity token the score row of every sample sums
\* to the sum of q over the valid response positions 0 .. validLength - 1.
C8_TokenSumOverValid ==
    ScoredAs("token") =>
        \A i \in Samples :
            SumSeq(fwd.token_level_score[i])
                = SumSeq(SubSeq(fwd.q[i], 1, max_positions(micro_batch, i)))

\* a sample with two valid tokens and nonzero q at both
C8_Witness ==
    /\ ScoredAs("token")
    /\ \E i \in Samples :
          /\ max_positions(micro_batch, i) = 2
          /\ fwd.q[i][1] # 0 /\ fwd.q[i][2] # 0
          /\ SumSeq(fwd.token_level_score[i]) # 0

FullyValid == \A i \in Samples : max_positions(micro_batch, i) = num_actions(micro_batch)

\* C9: the scenario batch (2 samples, prompt length 3, fully valid response
\* length 4, granularity whole) has q = [[0.1,0.2,-0.05,0.3],[0,0,0,0]] and
\* is scored [[0,0,0,0.55],[0,0,0,0]] (both in hundredths): every position
\* other than the last valid one is zero and that one holds the sum of q,
\* also when the sum is zero.
C9_ScenarioScore ==
    (ScoredAs("whole") /\ FullyValid /\ micro_batch.prompt_length = 3
        /\ num_actions(micro_batch) = 4)
    => /\ fwd.q = ExampleQ
       /\ fwd.token_level_score = << <<0, 0, 0, 55>>, <<0, 0, 0, 0>> >>

\* the scenario batch was scored, against nonzero reference log-probabilities
C9_Witness ==
    /\ ScoredAs("whole") /\ FullyValid /\ fwd.q = ExampleQ
    /\ micro_batch.prompt_length = 3 /\ num_actions(micro_batch) = 4
    /\ \A i \in Samples : micro_batch.ref_log_labels[i][3] = 1

\* C11: with prime_norm = batch_norm the scores of the output, for any score
\* matrix (the all-zero one included), have a maximum absolute reverse
\* cumulative sum over the whole batch of at most 1 + epsilon, and the
\* denominator they were divided by is not zero.
C11_BatchNormBounded ==
    (rm_scores.state = "returned" /\ token_level_scores.prime_norm = "batch_norm") =>
        /\ rm_scores.den > 0
        /\ LET M == MaxAbs([i \in 1..Len(rm_scores.num) |-> reverse_cumsum(rm_scores.num[i])])
           IN \* M / den <= 1 + 1 / EpsInv
              M <= rm_scores.den \/ (M - rm_scores.den) * EpsInv <= rm_scores.den

\* a two-sample matrix of scores of both signs whose reverse cumulative sum
\* reaches 2 was normalised
C11_Witness ==
    /\ rm_scores.state = "returned" /\ token_level_scores.prime_norm = "batch_norm"
    /\ Len(token_level_scores.scores) = 2
    /\ \E i, j \in 1..2 : \E t \in 1..Len(token_level_scores.scores[1]) :
          token_level_scores.scores[i][t] < 0 /\ token_level_scores.scores[j][t] > 0
    /\ rm_scores.den = 2 * EpsInv + 1

\* the response segment of sample i is empty or holds no valid token
EmptyResponse(i) ==
    num_actions(micro_batch) = 0 \/ max_positions(micro_batch, i) = 0

C13_NoRankLeavesAlone ==
    (\E v \in DOMAIN group : group[v].st = "idle") =>
        \A w \in DOMAIN group : group[w].st \notin {"returned", "raised"}

\* C13 (amended): no rank returns from an operation unless every rank of
\* the group has called it; while one rank has not called it, a rank that
\* reached a collective of the operation stays blocked there, and a rank
\* raises only if its call fails before its first collective.
C13_NoRankReturnsAlone ==
    (\E v \in DOMAIN group : group[v].st = "idle") =>
        \A w \in DOMAIN group :
            /\ group[w].st # "returned"
            /\ group[w].st = "raised" => group[w].at = 0
            /\ group[w].st = "blocked" => group[w].at = 0

\* one rank of a critic group is blocked in compute_values, which has no
\* explicit barrier, while the other rank has not called it
C13_Witness ==
    /\ dispatched.op = "compute_values"
    /\ DOMAIN group = {0, 1}
    /\ group[0].st = "idle"
    /\ group[1].st = "blocked"

\* C14: in save_checkpoint of the actor and of the critic every rank takes
\* part in the full-state gather, and only rank 0 writes: the local
\* checkpoint files and, after them, the copy to the remote store.
C14_OnlyRankZeroWrites ==
    Returned("save_checkpoint") =>
        /\ Cardinality(Events({"gather"})) = 1
        /\ \A i \in Events({"write_local", "write_hdfs"}) :
              /\ cfg.rank = 0 /\ log[i].k = 0
              /\ \E g \in Events({"gather"}) : g < i
        /\ cfg.rank = 0 => Cardinality(Events({"write_local"})) = 1
        /\ \A i \in Events({"write_hdfs"}) : \E w \in Events({"write_local"}) : w < i

\* a worker of rank 1 returned from save_checkpoint: it gathered, it wrote
\* nothing
C14_Witness ==
    /\ Returned("save_checkpoint") /\ cfg.rank = 1
    /\ Events({"gather"}) # {}
    /\ Events({"write_local", "write_hdfs"}) = {}

Hybrid(c) == is_actor(c) /\ is_rollout(c)

\* C15: on a hybrid worker every generate_sequences call decodes with the
\* parameter version left by the most recently completed update_actor (the
\* sched-th version, sched counting the completed update_actor calls), and
\* the log-probabilities are recomputed after the generation with the same
\* version: no optimizer step runs inside the call.
C15_GenerateSeesLatestUpdate ==
    (Returned("generate_sequences") /\ Hybrid(cfg)) =>
        /\ Cardinality(Events({"generate"})) = 1
        /\ \A i \in Events({"generate"}) : log[i].k = entry.ver /\ log[i].k = sched
        /\ Events({"opt_step"}) = {} /\ ver = entry.ver
        /\ \A i \in Events({"forward"}) : \E g \in Events({"generate"}) : g < i

\* a generation with recomputed log-probabilities after two updates
C15_Witness ==
    /\ Returned("generate_sequences") /\ Hybrid(cfg) /\ cfg.param_offload
    /\ entry.ver = 2
    /\ Events({"forward"}) # {}

\* the value a setting configured as x has after one division by the group size
DividedOnce(x) == x \div cfg.world

\* every micro_batch_size / mini_batch_size a handler used in the last call
\* is the configured value divided once
UsesDividedOnce ==
    /\ \A i \in Events({"micro_batch_size"}) : log[i].k = DividedOnce(cfg.conf_micro)
    /\ \A i \in Events({"mini_batch_size"}) : log[i].k = DividedOnce(cfg.conf_mini)

\* the settings of the actor, rollout, ref, critic and the micro_batch_size
\* of the reward models are held divided once
StoredDividedOnce ==
    /\ is_actor(cfg) =>
          cfg.micro = DividedOnce(cfg.conf_micro) /\ cfg.mini = DividedOnce(cfg.conf_mini)
    /\ is_rollout(cfg) => cfg.rollout_micro = DividedOnce(cfg.conf_micro)
    /\ is_ref(cfg) => cfg.ref_micro = DividedOnce(cfg.conf_micro)
    /\ cfg.kind = "critic" =>
          cfg.micro = DividedOnce(cfg.conf_micro) /\ cfg.mini = DividedOnce(cfg.conf_mini)
    /\ cfg.kind \in {"rm", "prime"} => cfg.micro = DividedOnce(cfg.conf_micro)

\* C16 (as claimed): every batch-size setting a worker consumes, the PRIME
\* mini_batch_size included, is held divided by the group size once from
\* construction on, and every call uses that value.
C16_AllDividedAtConstruction ==
    /\ StoredDividedOnce
    /\ cfg.kind = "prime" => cfg.mini = DividedOnce(cfg.conf_mini)
    /\ UsesDividedOnce

\* C16 (amended): every batch-size setting a worker consumes except the PRIME
\* mini_batch_size is divided by the group size once, at construction, and
\* no operation changes it; the PRIME mini_batch_size setting stays as
\* configured and every compute_rm_score call divides it by the group size
\* into a local value; so every call of an operation uses the configured
\* value divided once.
C16_DividedOnceEveryCall ==
    /\ StoredDividedOnce
    /\ cfg.kind = "prime" => cfg.mini = cfg.conf_mini
    /\ UsesDividedOnce

\* the second scoring call of a PRIME worker of a group of two, configured
\* with micro_batch_size 3 and mini_batch_size 4, used 1 and 2
C16_Witness ==
    /\ cfg.kind = "prime" /\ Returned("compute_rm_score") /\ entry.touched
    /\ cfg.world = 2 /\ cfg.conf_micro = 3 /\ cfg.conf_mini = 4
    /\ \E i \in Events({"micro_batch_size"}) : log[i].k = 1
    /\ \E i \in Events({"mini_batch_size"}) : log[i].k = 2

TrainingEvents == {"backward", "opt_step", "zero_grad", "clip_grad"}

\* C17: in update mode before, nothing after dpo_acc_before changes the
\* parameters: the second pass is forward-only, the scores returned all come
\* from the parameter version the call ends with, and dpo_acc_after is
\* computed once, from those scores; a further forward-only pass with the
\* same parameters over the same input repeats them.
C17_SecondPassReproducible ==
    (cfg.kind = "prime" /\ cfg.update = "before" /\ Returned("compute_rm_score")) =>
        /\ Cardinality(Events({"dpo_acc_before"})) = 1
        /\ Cardinality(Events({"dpo_acc_after"})) = 1
        /\ \A b \in Events({"dpo_acc_before"}) :
              /\ \A i \in Events(TrainingEvents) : i < b
              /\ \A a \in Events({"dpo_acc_after"}) :
                    /\ b < a /\ log[a].k = out.n
                    /\ \A f \in Events({"forward"}) : b < f => f < a
        /\ Len(out.rows) = out.n
        /\ \A i \in 1..Len(out.rows) : out.rows[i].ver = ver

\* a call in mode before that updated the parameters in its first pass and
\* scored two micro-batches again
C17_Witness ==
    /\ cfg.kind = "prime" /\ cfg.update = "before" /\ Returned("compute_rm_score")
    /\ ver > entry.ver
    /\ NumMicro >= 2
    /\ out.met.dpo_acc_after = 1

ForwardOnly == {"generate_sequences", "compute_ref_log_prob", "compute_values",
                "save_checkpoint"}

\* C18: every forward-only operation (generate_sequences,
\* compute_ref_log_prob, compute_values, save_checkpoint) returns with the
\* parameter version it was entered with, whatever the offload flags: the
\* load and the offload around it change no value and no training step runs.
C18_ForwardOnlyKeepsVersion ==
    (pc = "ready" /\ op \in ForwardOnly) =>
        /\ ver = entry.ver
        /\ acc = entry.acc /\ sched = entry.sched
        /\ Events(TrainingEvents \cup {"sched_step"}) = {}

\* compute_values after an update, its parameters really loaded and
\* offloaded again
C18_Witness ==
    /\ Returned("compute_values") /\ entry.ver >= 1
    /\ \E i \in Events({"load_param"}) : log[i].ok
    /\ \E i \in Events({"offload_param"}) : log[i].ok
    /\ ver = entry.ver

OffloadEvents == {"offload_param", "offload_grad", "offload_optimizer"}

C20_UnknownGranularityFatal ==
    (/\ cfg.kind = "prime" /\ op = "compute_rm_score"
     /\ cfg.granularity \notin {"token", "whole"})
    => /\ pc = "failed" /\ out.err # ""
       /\ out.rows = <<>>
       /\ Events(TrainingEvents) = {}
       /\ ver = entry.ver /\ acc = entry.acc

\* a training call with an unknown granularity failed in its first forward
C20_Witness ==
    /\ cfg.kind = "prime" /\ op = "compute_rm_score"
    /\ cfg.granularity = "other" /\ cfg.update = "before"
    /\ out.err = "NotImplementedError"
    /\ Cardinality(Events({"forward"})) = 1

\* C10: a compute_rm_score call that returns gives one score row per input
\* sample, in the order of the input, each micro-batch having been forwarded
\* once per pass.
C10_OneRowPerSampleInOrder ==
    Returned("compute_rm_score") =>
        /\ Len(out.rows) = out.n
        /\ \A i \in 1..Len(out.rows) : out.rows[i].sample = i
        /\ \A k \in 1..NumMicro :
              Cardinality({ i \in Events({"forward"}) : log[i].on = "main" /\ log[i].k = k })
                  = IF cfg.kind = "prime" /\ IsDoubleForward(cfg.update) THEN 2 ELSE 1

\* a call returned whose batch cardinality is not a multiple of the
\* micro-batch size
C10_Witness ==
    /\ cfg.kind = "prime" /\ Returned("compute_rm_score")
    /\ cfg.micro = 2 /\ out.n = 3
    /\ Len(out.rows) = 3

\* C21: with a loss_type that is not a known loss, a compute_rm_score call
\* in a training mode (before, after) ends in an error in its first
\* micro-batch: no backward pass, optimizer step or change of the
\* parameters comes before the error, and the micro-batch is not run again.
C21_UnknownLossFatal ==
    (/\ cfg.kind = "prime" /\ op = "compute_rm_score"
     /\ cfg.loss_type # "ce" /\ IsTraining(cfg.update))
    => /\ pc = "failed" /\ out.err # ""
       /\ Events(TrainingEvents) = {}
       /\ ver = entry.ver /\ acc = entry.acc
       /\ \A i \in Events({"forward"}) : log[i].k = 1
       /\ Cardinality({ i \in Events({"forward"}) : log[i].on = "main" }) <= 1

\* a training call with a known granularity and an unknown loss failed
\* after the forward pass of its first micro-batch
C21_Witness ==
    /\ cfg.kind = "prime" /\ op = "compute_rm_score"
    /\ cfg.loss_type = "other" /\ cfg.granularity = "token" /\ cfg.update = "after"
    /\ out.err = "NotImplementedError"
    /\ out.n > cfg.micro
    /\ Cardinality(Events({"forward"})) = 1

C23_MetricsPerMode ==
    (cfg.kind = "prime" /\ Returned("compute_rm_score")) =>
        /\ Len(out.rows) = out.n
        /\ out.met.dpo_acc_before = 1
        /\ out.met.dpo_acc_after = (IF cfg.update = "before" THEN 1 ELSE 0)
        /\ out.met.dpo_loss = (IF IsTraining(cfg.update) THEN NumMicro ELSE 0)
        /\ out.met.grad_norm = Cardinality(Events({"opt_step"}))
        /\ ~IsTraining(cfg.update) => out.met.grad_norm = 0

\* a call in mode before over several micro-batches returned with a
\* gradient norm and both accuracies
C23_Witness ==
    /\ cfg.kind = "prime" /\ Returned("compute_rm_score")
    /\ cfg.update = "before" /\ NumMicro >= 2
    /\ out.met.grad_norm >= 1 /\ out.met.dpo_loss >= 2
    /\ out.met.dpo_acc_after = 1

\* C24: with granularity token, for every sample, the score at response
\* position t is the single entry q[t] at every position below the valid
\* response length and zero at every position from the valid length up to
\* num_actions - 1.
C24_TokenScoreIsQ ==
    ScoredAs("token") =>
        \A i \in Samples :
            \A t \in 1..num_actions(micro_batch) :
                fwd.token_level_score[i][t] =
                    IF t <= max_positions(micro_batch, i) THEN fwd.q[i][t] ELSE 0

\* a sample with one valid token out of two, q nonzero at both positions:
\* the first is scored q, the second zero
C24_Witness ==
    /\ ScoredAs("token")
    /\ num_actions(micro_batch) = 2
    /\ \E i \in Samples :
          /\ max_positions(micro_batch, i) = 1
          /\ fwd.q[i][1] # 0 /\ fwd.q[i][2] # 0
          /\ fwd.token_level_score[i] = <<fwd.q[i][1], 0>>

\* the place in the log of the computation of dpo_acc_before, which ends
\* the first pass
AccBeforeAt == CHOOSE i \in Events({"dpo_acc_before"}) : TRUE

\* C25: the rm_scores a compute_rm_score call returns are, in update mode
\* before, the rows of the second pass, every one computed with the
\* parameters as they are after all optimizer steps of the call; in the
\* modes after and none they are the rows of the first pass.
C25_ReturnedPass ==
    (cfg.kind = "prime" /\ Returned("compute_rm_score")) =>
        /\ Len(out.rows) = out.n
        /\ cfg.update = "before" =>
              \A r \in 1..Len(out.rows) :
                  /\ out.rows[r].at > AccBeforeAt
                  /\ out.rows[r].ver = ver
                  /\ ver = entry.ver + Cardinality(Events({"opt_step"}))
        /\ cfg.update # "before" =>
              \A r \in 1..Len(out.rows) : out.rows[r].at < AccBeforeAt

\* a call in mode before that took an optimizer step returned the rows of
\* the second pass, scored by the updated parameters
C25_Witness ==
    /\ cfg.kind = "prime" /\ Returned("compute_rm_score")
    /\ cfg.update = "before" /\ out.n >= 2
    /\ Events({"opt_step"}) # {}
    /\ \A r \in 1..Len(out.rows) :
          out.rows[r].ver > entry.ver /\ out.rows[r].at > AccBeforeAt

\* C26: in a compute_rm_score call every optimizer step comes right after
\* the clipping of the gradients and right before their zeroing; the
\* gradients are clipped only to be applied and zeroed only once applied.
C26_ClipStepZero ==
    (cfg.kind = "prime" /\ op = "compute_rm_score") =>
        /\ \A i \in Events({"opt_step"}) :
              /\ i > 1 /\ log[i - 1].ev = "clip_grad"
              /\ i < Len(log) /\ log[i + 1].ev = "zero_grad"
        /\ \A i \in Events({"clip_grad"}) : i < Len(log) /\ log[i + 1].ev = "opt_step"
        /\ \A i \in Events({"zero_grad"}) : i > 1 /\ log[i - 1].ev = "opt_step"

\* a call took two optimizer steps, each on clipped gradients
C26_Witness ==
    /\ cfg.kind = "prime" /\ Returned("compute_rm_score")
    /\ Cardinality(Events({"opt_step"})) >= 2
    /\ Cardinality(Events({"clip_grad"})) = Cardinality(Events({"opt_step"}))

\* the steps of the given kinds that rank r has done / has in its call
Done(r, kinds) == { i \in 1..group[r].pos : group[r].log[i].ev \in kinds }

InCall(r, kinds) == { i \in 1..Len(group[r].log) : group[r].log[i].ev \in kinds }

\* C27: in save_checkpoint every rank has its parameters on the accelerator
\* (loaded first where they are kept offloaded) when it enters the
\* full-state gather; no rank returns, or offloads its parameters again,
\* before rank 0 has written the checkpoint; and a rank offloads only after
\* it has passed the barrier.
C27_SaveCheckpointOrder ==
    dispatched.op = "save_checkpoint" =>
        \A r \in DOMAIN group :
            /\ \A g \in Done(r, {"gather"}) :
                  /\ group[r].log[g].ok
                  /\ is_offload_param(dispatched.cfg) =>
                        \E l \in Done(r, {"load_param"}) : l < g
            /\ (group[r].st = "returned" \/ Done(r, {"offload_param"}) # {}) =>
                  /\ InCall(0, {"write_local"}) # {}
                  /\ dispatched.flag => InCall(0, {"write_hdfs"}) # {}
                  /\ InCall(0, {"write_local", "write_hdfs"})
                        = Done(0, {"write_local", "write_hdfs"})
            /\ \A o \in Done(r, {"offload_param"}) :
                  \E b \in Done(r, {"barrier"}) : b < o

\* in a group of two whose parameters are kept offloaded, rank 1 has
\* returned from a save_checkpoint with an upload while rank 0, its writes
\* done, is still on its way out of the barrier
C27_Witness ==
    /\ dispatched.op = "save_checkpoint" /\ dispatched.flag
    /\ is_offload_param(dispatched.cfg)
    /\ DOMAIN group = {0, 1}
    /\ group[1].st = "returned" /\ Done(1, {"offload_param"}) # {}
    /\ group[0].st = "running"
    /\ Done(0, {"write_hdfs"}) # {} /\ Done(0, {"offload_param"}) = {}

Sequences == 1..Len(data.attention_mask)

\* the valid tokens of the response of sequence i
ValidResponse(i) ==
    SumSeq(SubSeq(data.attention_mask[i], data.prompt_length + 1,
                  Len(data.attention_mask[i])))

\* the place (from 1) of the last valid token of sequence i
LastValid(i) ==
    CHOOSE t \in 1..Len(data.attention_mask[i]) :
        /\ data.attention_mask[i][t] = 1
        /\ \A u \in (t + 1)..Len(data.attention_mask[i]) : data.attention_mask[i][u] = 0

C29_NoGradientLeft ==
    (/\ cfg.kind = "prime" /\ Returned("compute_rm_score")
     /\ IsTraining(cfg.update)
     /\ IsIntegerRatio(accumulate_steps(cfg)))
    => /\ acc = 0
       /\ \A j \in Events({"backward"}) : \E i \in Events({"opt_step"}) : j < i

\* C30 (as claimed): in a training call (modes before, after) that returns,
\* every forward pass of the first pass, whose scores feed dpo_acc_before,
\* runs before any optimizer step of the call, so that the scores of the
\* first pass (the rows returned in mode after) are all computed with the
\* parameters as they were when the call was entered.
C30_FirstPassAtEntryParameters ==
    (/\ cfg.kind = "prime" /\ Returned("compute_rm_score")
     /\ IsTraining(cfg.update))
    => /\ \A f \in Events({"forward"}) :
             f < AccBeforeAt => \A s \in Events({"opt_step"}) : f < s
       /\ cfg.update = "after" =>
             \A r \in 1..Len(out.rows) : out.rows[r].ver = entry.ver

\* C31 (as claimed): RewardModelWorker.compute_rm_score returns one
\* rm_scores row per input sample whether or not an input tokenizer is
\* configured; neither configuration makes the call fail.
C31_BothTokenizerConfigsReturn ==
    (/\ cfg.kind = "rm" /\ op = "compute_rm_score"
     /\ cfg.micro >= 1)
    => /\ pc = "ready" /\ out.err = ""
       /\ Len(out.rows) = out.n

\* C32 (as claimed): with chat template switching enabled on the PRIME
\* worker, compute_rm_score completes under an otherwise valid
\* configuration: the re-rendered batch provides every field the call
\* reads, and the result has one row per input sample.
C32_SwitchedTemplateCompletes ==
    (/\ cfg.kind = "prime" /\ op = "compute_rm_score"
     /\ cfg.input_tokenizer
     /\ cfg.micro >= 1 /\ mini_batch_size(cfg) >= 1
     /\ cfg.granularity \in {"token", "whole"}
     /\ cfg.loss_type = "ce" /\ cfg.grad_clip)
    => /\ pc = "ready" /\ out.err = ""
       /\ Len(out.rows) = out.n

\* the operations whose handler steps a learning-rate scheduler
TrainingCall ==
    \/ op \in {"update_actor", "update_critic"}
    \/ op = "compute_rm_score" /\ cfg.kind = "prime" /\ IsTraining(cfg.update)

\* C33: the learning-rate scheduler is stepped exactly once by every
\* training call that returns (update_actor, update_critic, compute_rm_score
\* in mode before or after), however many optimizer steps the call took, and
\* by nothing else: not by a call that fails and not by any other operation.
\* The scheduler having started at 0, it has been stepped n times after n
\* completed training calls.
C33_SchedulerOncePerTrainingCall ==
    LET n == IF pc = "ready" /\ TrainingCall THEN 1 ELSE 0
    IN /\ sched = entry.sched + n
       /\ Cardinality(Events({"sched_step"})) = n

\* the second training call of a PRIME worker returned, having taken two
\* optimizer steps, and the scheduler has been stepped twice
C33_Witness ==
    /\ cfg.kind = "prime" /\ Returned("compute_rm_score") /\ TrainingCall
    /\ entry.sched = 1 /\ sched = 2
    /\ Cardinality(Events({"opt_step"})) = 2

\* the steps of a call, of the kinds given, that come after the load of the
\* optimizer state and before its offload
Bracketed(kinds) ==
    { i \in Events(kinds) :
        /\ \E l \in Events({"load_optimizer"}) : l < i
        /\ \E o \in Events({"offload_optimizer"}) : i < o }

\* C34 (as claimed): in a training call (update_actor, update_critic,
\* compute_rm_score in mode before or after) of a worker with
\* optimizer_offload set, every optimizer step and every step of the
\* learning-rate scheduler comes after the call's load of the optimizer
\* state and before its offload.
C34_StepsWhileOptimizerLoaded ==
    (/\ pc = "ready" /\ TrainingCall
     /\ is_offload_optimizer(cfg))
    => Events({"opt_step", "sched_step"}) = Bracketed({"opt_step", "sched_step"})

\* C35 (as claimed): on a worker of a role that includes the reference
\* policy (ref, actor_rollout_ref), init_model leaves the reference model's
\* parameters on host, and compute_ref_log_prob loads them before and
\* offloads them after its forward pass, iff the reference configuration's
\* own param_offload is set.
C35_RefOffloadPerRefConfig ==
    is_ref(cfg) =>
        /\ Returned("init_model") =>
              (pl.ref.param = "host" <=> cfg.ref_param_offload)
        /\ Returned("compute_ref_log_prob") =>
              ((\E l, f, o \in 1..Len(log) :
                   /\ l < f /\ f < o
                   /\ log[l].ev = "load_param" /\ log[l].on = "ref"
                   /\ log[f].ev = "forward" /\ log[f].on = "ref"
                   /\ log[o].ev = "offload_param" /\ log[o].on = "ref")
               <=> cfg.ref_param_offload)

\* the operation that ran last is not one of the worker's role
OutOfRole ==
    /\ cfg.kind = "arr"
    /\ \/ op \in {"update_actor", "save_checkpoint"} /\ ~is_actor(cfg)
       \/ op = "generate_sequences" /\ ~is_rollout(cfg)
       \/ op = "compute_ref_log_prob" /\ ~is_ref(cfg)

\* C36: an operation invoked on a worker whose role does not include it
\* (update_actor or save_checkpoint without the actor role,
\* generate_sequences without the rollout role, compute_ref_log_prob
\* without the ref role) fails by assertion before anything is loaded,
\* offloaded or computed: the placement, the parameters, the accumulated
\* gradients and the scheduler are as they were when it was invoked.
C36_OutOfRoleAssertsFirst ==
    OutOfRole =>
        /\ pc = "failed" /\ out.err = "AssertionError"
        /\ \A i \in 1..Len(log) : log[i].on = "meta_info"
        /\ pl = entry.pl
        /\ ver = entry.ver /\ acc = entry.acc /\ sched = entry.sched

\* generate_sequences failed on a worker with the actor role only, whose
\* parameters an earlier update_actor had left on host
C36_Witness ==
    /\ OutOfRole
    /\ cfg.role = "actor" /\ op = "generate_sequences"
    /\ pc = "failed"
    /\ pl.main.param = "host" /\ ver = 1

\* the collective steps of a call, in program order
CollectiveSteps(l) == SelectSeq(l, IsCollective)

\* rank r has left the operation
Left(r) == group[r].st \in {"returned", "raised"}

\* C37: when every rank of a group is dispatched the same operation with
\* the same configuration and shards of equal size, the group does not
\* deadlock: eventually every rank has left the operation, all in the same
\* way (returned, or raised the same error where the configuration makes the
\* call fail), having passed the same collective steps, barriers included,
\* in the same order and the same number of them.
C37_GroupReturnsTogether ==
    <>[](\A r \in DOMAIN group :
            /\ Left(r)
            /\ group[r].st = group[0].st /\ group[r].err = group[0].err
            /\ group[r].at = group[0].at
            /\ group[r].at = Len(CollectiveSteps(group[r].log))
            /\ CollectiveSteps(group[r].log) = CollectiveSteps(group[0].log))

\* both ranks of a PRIME group returned from compute_rm_score in mode
\* before, each having passed the three barriers of the call
C37_Witness ==
    /\ dispatched.op = "compute_rm_score" /\ dispatched.cfg.kind = "prime"
    /\ dispatched.cfg.update = "before"
    /\ DOMAIN group = {0, 1}
    /\ \A r \in DOMAIN group :
          /\ group[r].st = "returned"
          /\ Len(SelectSeq(group[r].log, LAMBDA e : e.ev = "barrier")) = 3

\* C38 (as claimed): once a worker is constructed, every batch-size setting
\* that was divided by the world size is at least 1, whatever positive
\* value was configured and whatever the world size, so that no operation
\* splits a batch by, or divides by, a size of zero.
C38_NormalizedSizesPositive ==
    /\ cfg.conf_micro >= 1 /\ cfg.conf_mini >= 1 /\ cfg.world >= 1
    /\ cfg.micro >= 1 /\ cfg.mini >= 1
    /\ cfg.rollout_micro >= 1 /\ cfg.ref_micro >= 1
    /\ \A i \in 1..Len(log) : log[i].on = "config" => log[i].k >= 1

====
